---- MODULE Spec2Model ----
(***************************************************************************)
(* Counter game (multiplayer 301/501), practice game and room sync of      *)
(* niemenmaa/darts.                                                        *)
(*                                                                         *)
(* The game logic of src/counter-game.js (the module with sync support,    *)
(* lines 421-1154) is modelled as pure operators over a gameState record;  *)
(* every operator returns [state, result]: the state the call leaves and   *)
(* the value it returns.  The specifications that use them:                *)
(*   Spec         the app: the handlers of the counter app controller      *)
(*                (src/unnamed/part_001, lines 2360-3593), each enabled on *)
(*                the screen that shows its control;                       *)
(*   LocalSpec    Spec without states received from a peer;                *)
(*   PlaySpec     throws and undo on the game screen;                      *)
(*   ThrowSpec    throws only, from resumed games;                         *)
(*   ApiSpec      the exported operations of counter-game.js called in any *)
(*                order;                                                   *)
(*   PracticeSpec the practice game (src/game.js under src/app.js);        *)
(*   SyncSpec     two devices and the relay (src/sync.js,                  *)
(*                src/unnamed/part_003); SyncLiveSpec adds fairness.       *)
(*   SoloSpec     SyncSpec in which only the host plays;                   *)
(*   ProfileSpec  SoloSpec with a joiner who has a profile;                *)
(*                ProfileLiveSpec adds fairness;                           *)
(*   SocketSpec   the sockets of one device (src/sync.js): connects,       *)
(*                disconnects and the events of every socket made;         *)
(*   BoardSpec    throws on the board: the discrete resolver of            *)
(*                src/game.js, the continuous resolver of                  *)
(*                src/unnamed/part_007 and the geometry of src/board.js;   *)
(*   JustThrowSpec a session of the Just Throw game                        *)
(*                (src/unnamed/part_007).                                  *)
(***************************************************************************)
EXTENDS Integers, Sequences, FiniteSets, TLC

VARIABLES gameState, currentScreen, last, budget, practice, room

vars == <<gameState, currentScreen, last, budget, practice, room>>

(***************************************************************************)
(* Bounds of the model.                                                    *)
(***************************************************************************)
\* most players a game is set up with
MaxPlayers == 2
\* most addThrow calls of one session
MaxThrows == 2

(***************************************************************************)
(* Throws.  addThrow(text, value, isDouble) receives already-resolved      *)
(* throws from the board; these are the ones the model feeds it.           *)
(***************************************************************************)
T20 == [text |-> "T20", value |-> 60, isDouble |-> FALSE]
T7 == [text |-> "T7", value |-> 21, isDouble |-> FALSE]
D20 == [text |-> "D20", value |-> 40, isDouble |-> TRUE]
Bull50 == [text |-> "50", value |-> 50, isDouble |-> TRUE]

Throws == {T20, T7, D20, Bull50}

\* what is typed into the player name input, and what String.trim makes of it
NameInputs == {" Ann ", "  "}

trim(name) ==
    CASE name = " Ann " -> "Ann"
      [] name = "  " -> ""
      [] OTHER -> name

\* the two game modes setGameMode accepts, and one it rejects
Mode301 == 301
Mode501 == 501
ModeInputs == {Mode301, Mode501, 701}

(***************************************************************************)
(* Values.                                                                 *)
(***************************************************************************)
\* gameState.winner = null.  A winner is [name, ref]: ref is the position
\* (1-based) in players of the player object the winner field aliases, or 0
\* when it is a detached copy (after JSON, or once the object left players).
NoWinner == [name |-> "", ref |-> 0]

\* the return value of a call (success, and a tag for the branch taken);
\* threw is TRUE when the call ends in an uncaught TypeError instead;
\* removed holds the throw undoThrow returns, if any.
Result(success, tag) ==
    [success |-> success, tag |-> tag, threw |-> FALSE, removed |-> <<>>]

Sum(throws) ==
    LET RECURSIVE S(_)
        S(n) == IF n = 0 THEN 0 ELSE throws[n].value + S(n - 1)
    IN S(Len(throws))

\* the module-level gameState literal
initialGameState ==
    [players |-> <<>>,
     currentPlayerIndex |-> 0,
     startingScore |-> Mode301,
     doubleOut |-> TRUE,
     currentTurn |-> [throws |-> <<>>, scoreAtStart |-> 0],
     gameStarted |-> FALSE,
     winner |-> NoWinner,
     mentalMathMode |-> FALSE]

\* JSON.parse(JSON.stringify(state)): the same values in fresh objects, so
\* winner no longer aliases an element of players.
jsonCopy(gs) ==
    [gs EXCEPT !.winner = IF @ = NoWinner THEN @ ELSE [@ EXCEPT !.ref = 0]]

(***************************************************************************)
(* Player management.                                                      *)
(***************************************************************************)
addPlayer(gs, name) ==
    IF trim(name) = ""
    THEN [state |-> gs, result |-> Result(FALSE, "false")]
    ELSE [state |-> [gs EXCEPT !.players =
                        Append(@, [name |-> trim(name),
                                   score |-> gs.startingScore,
                                   history |-> <<>>])],
          result |-> Result(TRUE, "true")]

\* Array.splice(index, 1) on a sequence (index is 0-based)
spliceOut(seq, index) ==
    SubSeq(seq, 1, index) \o SubSeq(seq, index + 2, Len(seq))

\* Array.splice(index, 0, item) on a sequence (index is 0-based)
spliceIn(seq, index, item) ==
    SubSeq(seq, 1, index) \o <<item>> \o SubSeq(seq, index + 1, Len(seq))

removePlayer(gs, index) ==
    IF index >= 0 /\ index < Len(gs.players)
    THEN [state |->
            [gs EXCEPT
               !.players = spliceOut(@, index),
               !.winner = IF @.ref = index + 1 THEN [@ EXCEPT !.ref = 0]
                          ELSE IF @.ref > index + 1 THEN [@ EXCEPT !.ref = @ - 1]
                          ELSE @],
          result |-> Result(TRUE, "true")]
    ELSE [state |-> gs, result |-> Result(FALSE, "false")]

movePlayer(gs, fromIndex, toIndex) ==
    IF fromIndex < 0 \/ fromIndex >= Len(gs.players)
    THEN [state |-> gs, result |-> Result(FALSE, "false")]
    ELSE IF toIndex < 0 \/ toIndex >= Len(gs.players)
    THEN [state |-> gs, result |-> Result(FALSE, "false")]
    ELSE IF fromIndex = toIndex
    THEN [state |-> gs, result |-> Result(FALSE, "false")]
    ELSE LET player == gs.players[fromIndex + 1]
             moved == spliceIn(spliceOut(gs.players, fromIndex), toIndex, player)
             \* where the object at position p (1-based) ends up
             newPos(p) ==
                 IF p = fromIndex + 1 THEN toIndex + 1
                 ELSE LET q == IF p > fromIndex + 1 THEN p - 1 ELSE p
                      IN IF q >= toIndex + 1 THEN q + 1 ELSE q
         IN [state |->
               [gs EXCEPT
                  !.players = moved,
                  !.winner = IF @.ref = 0 THEN @ ELSE [@ EXCEPT !.ref = newPos(@)]],
             result |-> Result(TRUE, "true")]

(***************************************************************************)
(* Game setup.                                                             *)
(***************************************************************************)
setGameMode(gs, score) ==
    IF score = Mode301 \/ score = Mode501
    THEN [state |-> [gs EXCEPT !.startingScore = score],
          result |-> Result(TRUE, "true")]
    ELSE [state |-> gs, result |-> Result(FALSE, "false")]

setDoubleOut(gs, enabled) ==
    [state |-> [gs EXCEPT !.doubleOut = enabled], result |-> Result(TRUE, "void")]

\* startGame that resets the scores but keeps the histories
startGame_keepsHistory(gs) ==
    IF Len(gs.players) = 0
    THEN [state |-> gs, result |-> Result(FALSE, "false")]
    ELSE [state |->
            [gs EXCEPT
               !.players = [i \in DOMAIN gs.players |->
                              [gs.players[i] EXCEPT !.score = gs.startingScore]],
               !.currentPlayerIndex = 0,
               !.gameStarted = TRUE,
               !.winner = NoWinner,
               !.currentTurn = [throws |-> <<>>, scoreAtStart |-> gs.startingScore]],
          result |-> Result(TRUE, "true")]

startGame(gs) ==
    IF Len(gs.players) = 0
    THEN [state |-> gs, result |-> Result(FALSE, "false")]
    ELSE [state |->
            [gs EXCEPT
               !.players = [i \in DOMAIN gs.players |->
                              [gs.players[i] EXCEPT !.score = gs.startingScore,
                                                    !.history = <<>>]],
               !.currentPlayerIndex = 0,
               !.gameStarted = TRUE,
               !.winner = NoWinner,
               !.currentTurn = [throws |-> <<>>, scoreAtStart |-> gs.startingScore]],
          result |-> Result(TRUE, "true")]

resetGame(gs) ==
    [state |->
       [gs EXCEPT
          !.gameStarted = FALSE,
          !.winner = NoWinner,
          !.currentPlayerIndex = 0,
          !.currentTurn = [throws |-> <<>>, scoreAtStart |-> 0]],
     result |-> Result(TRUE, "void")]

fullReset(gs) ==
    resetGame([gs EXCEPT !.players = <<>>])

(***************************************************************************)
(* Throws and turns.                                                       *)
(***************************************************************************)
\* getCurrentPlayer() is null when currentPlayerIndex is no index of players
hasCurrentPlayer(gs) ==
    gs.currentPlayerIndex >= 0 /\ gs.currentPlayerIndex < Len(gs.players)

\* position in the model's 1-based players of the player on turn
cur(gs) == gs.currentPlayerIndex + 1

getCurrentPlayer(gs) == gs.players[cur(gs)]

getActualCurrentScore(gs) ==
    IF ~hasCurrentPlayer(gs) THEN 0
    ELSE gs.currentTurn.scoreAtStart - Sum(gs.currentTurn.throws)

\* advanceToNextPlayer without line 1040: scoreAtStart is left at the
\* previous player's value
advanceToNextPlayer_keepsScoreAtStart(gs) ==
    [gs EXCEPT
        !.currentPlayerIndex = (gs.currentPlayerIndex + 1) % Len(gs.players),
        !.currentTurn = [throws |-> <<>>, scoreAtStart |-> gs.currentTurn.scoreAtStart]]

\* advanceToNextPlayer that leaves the same player on turn
advanceToNextPlayer_samePlayer(gs) ==
    [gs EXCEPT
        !.currentTurn = [throws |-> <<>>, scoreAtStart |-> gs.players[cur(gs)].score]]

advanceToNextPlayer(gs) ==
    LET next == (gs.currentPlayerIndex + 1) % Len(gs.players)
    IN [gs EXCEPT
          !.currentPlayerIndex = next,
          !.currentTurn = [throws |-> <<>>,
                           scoreAtStart |-> gs.players[next + 1].score]]

\* player.history.push({round, throws, bust, scoreAfter}) for the player on turn
pushRound(gs, bust, scoreAfter) ==
    [gs EXCEPT !.players[cur(gs)].history =
        Append(@, [round |-> Len(@) + 1,
                   throws |-> gs.currentTurn.throws,
                   bust |-> bust,
                   scoreAfter |-> scoreAfter])]

\* handleBust recording the busting candidate instead of scoreAtStart
handleBust_recordsCandidate(gs) ==
    [state |-> advanceToNextPlayer(
                  pushRound(gs, TRUE,
                            gs.currentTurn.scoreAtStart - Sum(gs.currentTurn.throws))),
     result |-> Result(TRUE, "bust")]

handleBust(gs) ==
    [state |-> advanceToNextPlayer(pushRound(gs, TRUE, gs.currentTurn.scoreAtStart)),
     result |-> Result(TRUE, "bust")]

\* handleWin without line 997: the winner's score is not set to 0
handleWin_keepsScore(gs) ==
    [state |-> [pushRound(gs, FALSE, 0) EXCEPT
                  !.winner = [name |-> getCurrentPlayer(gs).name, ref |-> cur(gs)]],
     result |-> Result(TRUE, "win")]

handleWin(gs) ==
    LET recorded == pushRound(gs, FALSE, 0)
    IN [state |-> [recorded EXCEPT
                     !.players[cur(gs)].score = 0,
                     !.winner = [name |-> getCurrentPlayer(gs).name, ref |-> cur(gs)]],
        result |-> Result(TRUE, "win")]

\* completeTurn without line 1016: the player's score is not updated
completeTurn_keepsScore(gs) ==
    LET newScore == gs.currentTurn.scoreAtStart - Sum(gs.currentTurn.throws)
    IN [state |-> advanceToNextPlayer(pushRound(gs, FALSE, newScore)),
        result |-> Result(TRUE, "turnComplete")]

completeTurn(gs) ==
    LET newScore == gs.currentTurn.scoreAtStart - Sum(gs.currentTurn.throws)
        scored == [gs EXCEPT !.players[cur(gs)].score = newScore]
    IN [state |-> advanceToNextPlayer(pushRound(scored, FALSE, newScore)),
        result |-> Result(TRUE, "turnComplete")]

\* the bust test without the "1 left" case
isBust_allowsOne(gs, newScore, isDouble) ==
    gs.doubleOut /\ (newScore < 0 \/ (newScore = 0 /\ ~isDouble))

\* the bust test without the "0 left without a double" case
isBust_allowsSingleOut(gs, newScore, isDouble) ==
    gs.doubleOut /\ (newScore < 0 \/ newScore = 1)

\* the bust test of addThrow, made only in double-out mode
isBust(gs, newScore, isDouble) ==
    gs.doubleOut /\ (newScore < 0 \/ newScore = 1 \/ (newScore = 0 /\ ~isDouble))

\* addThrow whose first guard forgets the winner
addThrow_ignoresWinner(gs, throw) ==
    IF ~gs.gameStarted
    THEN [state |-> gs, result |-> Result(FALSE, "Game not in progress")]
    ELSE IF ~hasCurrentPlayer(gs)
    THEN [state |-> gs, result |-> Result(FALSE, "No current player")]
    ELSE LET newScore == getActualCurrentScore(gs) - throw.value
             recorded == [gs EXCEPT !.currentTurn.throws = Append(@, throw)]
         IN IF gs.doubleOut /\ (newScore < 0 \/ newScore = 1 \/ (newScore = 0 /\ ~throw.isDouble))
            THEN handleBust(recorded)
            ELSE IF newScore = 0 THEN handleWin(recorded)
            ELSE IF Len(recorded.currentTurn.throws) >= 3 THEN completeTurn(recorded)
            ELSE [state |-> recorded, result |-> Result(TRUE, "continue")]

\* addThrow that ends a turn only with the fourth dart
addThrow_fourDarts(gs, throw) ==
    IF ~gs.gameStarted \/ gs.winner # NoWinner
    THEN [state |-> gs, result |-> Result(FALSE, "Game not in progress")]
    ELSE IF ~hasCurrentPlayer(gs)
    THEN [state |-> gs, result |-> Result(FALSE, "No current player")]
    ELSE LET newScore == getActualCurrentScore(gs) - throw.value
             recorded == [gs EXCEPT !.currentTurn.throws = Append(@, throw)]
         IN IF gs.doubleOut /\ (newScore < 0 \/ newScore = 1 \/ (newScore = 0 /\ ~throw.isDouble))
            THEN handleBust(recorded)
            ELSE IF newScore = 0 THEN handleWin(recorded)
            ELSE IF Len(recorded.currentTurn.throws) >= 4 THEN completeTurn(recorded)
            ELSE [state |-> recorded, result |-> Result(TRUE, "continue")]

addThrow(gs, throw) ==
    IF ~gs.gameStarted \/ gs.winner # NoWinner
    THEN [state |-> gs, result |-> Result(FALSE, "Game not in progress")]
    ELSE IF ~hasCurrentPlayer(gs)
    THEN [state |-> gs, result |-> Result(FALSE, "No current player")]
    ELSE LET newScore == getActualCurrentScore(gs) - throw.value
             recorded == [gs EXCEPT !.currentTurn.throws = Append(@, throw)]
         IN IF isBust(gs, newScore, throw.isDouble) THEN handleBust(recorded)
            ELSE IF newScore = 0 THEN handleWin(recorded)
            ELSE IF Len(recorded.currentTurn.throws) >= 3 THEN completeTurn(recorded)
            ELSE [state |-> recorded, result |-> Result(TRUE, "continue")]

canUndo(gs) ==
    \/ Len(gs.currentTurn.throws) > 0
    \/ \E i \in DOMAIN gs.players : Len(gs.players[i].history) > 0

\* undoThrow that always restores startingScore when it goes back a turn
undoThrow_restoresStartingScore(gs) ==
    IF Len(gs.currentTurn.throws) > 0
    THEN LET n == Len(gs.currentTurn.throws)
         IN [state |-> [gs EXCEPT !.currentTurn.throws = SubSeq(@, 1, n - 1)],
             result |-> [Result(TRUE, "popped") EXCEPT
                           !.removed = <<gs.currentTurn.throws[n]>>]]
    ELSE IF Len(gs.players) = 0
    THEN [state |-> gs,
          result |-> [Result(FALSE, "TypeError") EXCEPT !.threw = TRUE]]
    ELSE LET previousPlayerIndex ==
                 (gs.currentPlayerIndex - 1 + Len(gs.players)) % Len(gs.players)
             previousPlayer == gs.players[previousPlayerIndex + 1]
             h == Len(previousPlayer.history)
         IN IF h = 0
            THEN [state |-> gs, result |-> Result(FALSE, "No throws to undo")]
            ELSE LET lastRound == previousPlayer.history[h]
                     k == Len(lastRound.throws)
                 IN [state |->
                       [gs EXCEPT
                          !.players[previousPlayerIndex + 1].history =
                              SubSeq(@, 1, h - 1),
                          !.players[previousPlayerIndex + 1].score = gs.startingScore,
                          !.currentPlayerIndex = previousPlayerIndex,
                          !.currentTurn = [throws |-> SubSeq(lastRound.throws, 1, k - 1),
                                           scoreAtStart |-> gs.startingScore]],
                     result |-> [Result(TRUE, "playerChanged") EXCEPT
                                   !.removed = <<lastRound.throws[k]>>]]

undoThrow(gs) ==
    IF Len(gs.currentTurn.throws) > 0
    THEN LET n == Len(gs.currentTurn.throws)
         IN [state |-> [gs EXCEPT !.currentTurn.throws = SubSeq(@, 1, n - 1)],
             result |-> [Result(TRUE, "popped") EXCEPT
                           !.removed = <<gs.currentTurn.throws[n]>>]]
    ELSE IF Len(gs.players) = 0
    \* previousPlayerIndex is NaN, previousPlayer undefined: reading
    \* previousPlayer.history throws a TypeError before anything is changed
    THEN [state |-> gs,
          result |-> [Result(FALSE, "TypeError") EXCEPT !.threw = TRUE]]
    ELSE LET previousPlayerIndex ==
                 (gs.currentPlayerIndex - 1 + Len(gs.players)) % Len(gs.players)
             previousPlayer == gs.players[previousPlayerIndex + 1]
             h == Len(previousPlayer.history)
         IN IF h = 0
            THEN [state |-> gs, result |-> Result(FALSE, "No throws to undo")]
            ELSE LET lastRound == previousPlayer.history[h]
                     score == IF h - 1 > 0
                              THEN previousPlayer.history[h - 1].scoreAfter
                              ELSE gs.startingScore
                     k == Len(lastRound.throws)
                 IN [state |->
                       [gs EXCEPT
                          !.players[previousPlayerIndex + 1].history =
                              SubSeq(@, 1, h - 1),
                          !.players[previousPlayerIndex + 1].score = score,
                          !.currentPlayerIndex = previousPlayerIndex,
                          !.currentTurn = [throws |-> SubSeq(lastRound.throws, 1, k - 1),
                                           scoreAtStart |-> score]],
                     result |-> [Result(TRUE, "playerChanged") EXCEPT
                                   !.removed = <<lastRound.throws[k]>>]]

(***************************************************************************)
(* Sync.                                                                   *)
(***************************************************************************)
\* an absent value (undefined, or null for the cookie) and a present one
Undefined == <<>>
Some(x) == <<x>>

\* saved.field ?? fallback
orElse(x, fallback) == IF x = Undefined THEN fallback ELSE x[1]

\* field || fallback for a field that holds an array or an object: both are
\* truthy even when empty, only a missing field is falsy
truthyOr(x, fallback) == IF x = Undefined THEN fallback ELSE x[1]

\* the parsed message of a state that carries every field (what
\* notifyStateChange hands to the channel): JSON keeps all of them
received(s) ==
    Some([players |-> Some(s.players),
          currentPlayerIndex |-> Some(s.currentPlayerIndex),
          startingScore |-> Some(s.startingScore),
          doubleOut |-> Some(s.doubleOut),
          currentTurn |-> Some(s.currentTurn),
          gameStarted |-> Some(s.gameStarted),
          winner |-> Some(s.winner),
          mentalMathMode |-> Some(s.mentalMathMode)])

\* the merge that keeps the local players when the synced array is empty
mergeSyncedState_keepsPlayersWhenEmpty(gs, message) ==
    IF message = Undefined
    THEN [state |-> gs, result |-> Result(FALSE, "false")]
    ELSE LET syncedState == message[1]
         IN [state |->
               [gs EXCEPT
                  !.players = IF truthyOr(syncedState.players, <<>>) = <<>> THEN @
                              ELSE syncedState.players[1],
                  !.currentPlayerIndex = orElse(syncedState.currentPlayerIndex, @),
                  !.startingScore = orElse(syncedState.startingScore, @),
                  !.doubleOut = orElse(syncedState.doubleOut, @),
                  !.currentTurn = truthyOr(syncedState.currentTurn, @),
                  !.gameStarted = orElse(syncedState.gameStarted, @),
                  !.winner = orElse(syncedState.winner, NoWinner),
                  !.mentalMathMode = orElse(syncedState.mentalMathMode, @)],
             result |-> Result(TRUE, "true")]

\* applySyncedState over the parsed message: a missing message returns
\* false; players and currentTurn fall back with ||, winner is taken as it
\* is (a missing one leaves no winner), the other fields fall back with ??
mergeSyncedState(gs, message) ==
    IF message = Undefined
    THEN [state |-> gs, result |-> Result(FALSE, "false")]
    ELSE LET syncedState == message[1]
         IN [state |->
               [gs EXCEPT
                  !.players = truthyOr(syncedState.players, @),
                  !.currentPlayerIndex = orElse(syncedState.currentPlayerIndex, @),
                  !.startingScore = orElse(syncedState.startingScore, @),
                  !.doubleOut = orElse(syncedState.doubleOut, @),
                  !.currentTurn = truthyOr(syncedState.currentTurn, @),
                  !.gameStarted = orElse(syncedState.gameStarted, @),
                  !.winner = orElse(syncedState.winner, NoWinner),
                  !.mentalMathMode = orElse(syncedState.mentalMathMode, @)],
             result |-> Result(TRUE, "true")]

\* applySyncedState(syncedState) for a syncedState that carries every field;
\* it arrives through JSON
applySyncedState(gs, syncedState) == mergeSyncedState(gs, received(syncedState))

(***************************************************************************)
(* States of earlier sessions and of peers, built with the operations      *)
(* above so that each is a state the program reaches.                      *)
(***************************************************************************)
RECURSIVE playAll(_, _)
playAll(gs, throws) ==
    IF throws = <<>> THEN gs
    ELSE playAll(addThrow(gs, Head(throws)).state, Tail(throws))

\* a game of n players (1 or 2) just started, double-out as given
setUp(n, doubleOut) ==
    LET one == addPlayer(initialGameState, " Ann ").state
        all == IF n = 1 THEN one ELSE addPlayer(one, "Bob").state
    IN startGame(setDoubleOut(all, doubleOut).state).state

\* one player: T20 T20 T20 (121 left), then bull 50 in the second turn
midGame1(doubleOut) ==
    playAll(setUp(1, doubleOut), <<T20, T20, T20, Bull50>>)

\* two players: Ann T20 T20 T20 (121 left), Bob D20 D20 D20 (181 left), then
\* Ann T20 in her second turn
midGame2(doubleOut) ==
    playAll(setUp(2, doubleOut), <<T20, T20, T20, D20, D20, D20, T20>>)

\* what loadGameState can find in the cookie saveGameState wrote
SavedGames ==
    {jsonCopy(midGame1(d)) : d \in BOOLEAN} \cup {jsonCopy(midGame2(d)) : d \in BOOLEAN}

\* the blank button, single 1, single 2, single 19 and double 1
Blank == [text |-> "0", value |-> 0, isDouble |-> FALSE]
S1 == [text |-> "1", value |-> 1, isDouble |-> FALSE]
S2 == [text |-> "2", value |-> 2, isDouble |-> FALSE]
S19 == [text |-> "19", value |-> 19, isDouble |-> FALSE]
D1 == [text |-> "D1", value |-> 2, isDouble |-> TRUE]

\* the throws entered at a checkout of 2
CheckoutThrows == {Blank, S1, S2, D1, Bull50, T20}

\* Ann and Bob, 501 double-out, just started
checkoutStart ==
    LET two == addPlayer(addPlayer(initialGameState, " Ann ").state, "Bob").state
    IN startGame(setGameMode(setDoubleOut(two, TRUE).state, Mode501).state).state

\* Ann 501 -> 321 -> 141 -> 2 while Bob misses every dart; Ann is on turn
\* with 2 left and no throw yet
checkoutAtTwo ==
    playAll(checkoutStart,
            <<T20, T20, T20, Blank, Blank, Blank,
              T20, T20, T20, Blank, Blank, Blank,
              T20, T20, S19, Blank, Blank, Blank>>)

\* Ann 501 -> 321 -> 141 -> 62, then T20 in her fourth turn: 2 left with one
\* dart thrown
checkoutMidTurn ==
    playAll(checkoutStart,
            <<T20, T20, T20, Blank, Blank, Blank,
              T20, T20, T20, Blank, Blank, Blank,
              T20, S19, Blank, Blank, Blank, Blank,
              T20>>)

\* Ann 501 -> 321, then Bob has missed two darts of his first turn
checkoutBobOnTurn ==
    playAll(checkoutStart, <<T20, T20, T20, Blank, Blank>>)

\* saved 501 games: at a checkout of 2, and with the last player on turn
CheckoutGames ==
    {jsonCopy(checkoutAtTwo), jsonCopy(checkoutMidTurn), jsonCopy(checkoutBobOnTurn)}

\* what a peer in the room can have broadcast
PeerStates ==
    {jsonCopy(fullReset(initialGameState).state),
     jsonCopy(addPlayer(initialGameState, " Ann ").state),
     jsonCopy(setUp(2, TRUE)),
     jsonCopy(playAll(midGame1(TRUE), <<T7, Bull50>>))}

(***************************************************************************)
(* Practice game (src/game.js): checkout practice against a random target. *)
(* The module's variables are the fields of one record; a value of         *)
(* Math.random() is given in hundredths.                                   *)
(***************************************************************************)
\* the values of Math.random() * 100 in a throw
Randoms == {0, 50}
\* the values of Math.random() * 100 when a target is drawn
TargetRandoms == {0, 25, 50, 75}
\* most practice throws of one session
MaxDarts == 2

sectors == <<20, 1, 18, 4, 13, 6, 10, 15, 2, 17, 3, 19, 7, 16, 8, 11, 14, 9, 12, 5>>

noOuts == {169, 168, 166, 165, 163, 162, 159}

MinTarget == 2
MaxTarget == 170


\* the settings literal of game.js
defaultSettings ==
    [min |-> MinTarget, max |-> MaxTarget, ringAccuracy |-> 100, sectorAccuracy |-> 100]

\* Math.max(lo, Math.min(hi, x))
clamp(lo, hi, x) ==
    LET m == IF x < hi THEN x ELSE hi
    IN IF m > lo THEN m ELSE lo


\* loadSettings(): the settings after reading the cookie (null when absent)
loadSettings(settings, cookie) ==
    IF cookie = Undefined THEN settings
    ELSE [min |-> orElse(cookie[1].min, MinTarget),
          max |-> orElse(cookie[1].max, MaxTarget),
          ringAccuracy |-> orElse(cookie[1].ringAccuracy, 100),
          sectorAccuracy |-> orElse(cookie[1].sectorAccuracy, 100)]

\* updateSettings without the swap of min and max
updateSettings_noSwap(settings, newSettings) ==
    LET pick(field, lo, hi) ==
            IF newSettings[field] # Undefined
            THEN clamp(lo, hi, newSettings[field][1]) ELSE settings[field]
    IN [min |-> pick("min", MinTarget, MaxTarget),
        max |-> pick("max", MinTarget, MaxTarget),
        ringAccuracy |-> pick("ringAccuracy", 0, 100),
        sectorAccuracy |-> pick("sectorAccuracy", 0, 100)]

\* updateSettings(newSettings) for numeric fields, Undefined for an absent
\* one; the settings it leaves are also what saveSettings writes
updateSettings(settings, newSettings) ==
    LET pick(field, lo, hi) ==
            IF newSettings[field] # Undefined
            THEN clamp(lo, hi, newSettings[field][1]) ELSE settings[field]
        clamped == [min |-> pick("min", MinTarget, MaxTarget),
                    max |-> pick("max", MinTarget, MaxTarget),
                    ringAccuracy |-> pick("ringAccuracy", 0, 100),
                    sectorAccuracy |-> pick("sectorAccuracy", 0, 100)]
    IN IF clamped.min > clamped.max
       THEN [clamped EXCEPT !.min = clamped.max, !.max = clamped.min]
       ELSE clamped

\* a selection of the board: text is prefix + number ("D20", "20", "50")
Selection(prefix, number, value) ==
    [text |-> [prefix |-> prefix, number |-> number], value |-> value]

single(n) == Selection("", n, n)
double(n) == Selection("D", n, 2 * n)
triple(n) == Selection("T", n, 3 * n)

\* text.startsWith('D') || value === 50
isDoubleText(sel) == sel.text.prefix = "D" \/ sel.value = 50

\* sectors.indexOf(n), 0-based, -1 when absent
indexOf(n) ==
    IF \E i \in DOMAIN sectors : sectors[i] = n
    THEN (CHOOSE i \in DOMAIN sectors : sectors[i] = n) - 1
    ELSE -1

\* Math.random() * 100 >= accuracy
rollMisses(r, accuracy) == r >= accuracy

\* sectors[Math.floor(Math.random() * sectors.length)]
randomSector(r) == sectors[((r * Len(sectors)) \div 100) + 1]

\* applyMissChance rolling for the sector even at full accuracy
applyMissChance_alwaysRolls(selection, settings, rnd) ==
    LET isTriple == selection.text.prefix = "T"
        isDouble == isDoubleText(selection)
        rollsSector == settings.sectorAccuracy <= 100
        rollsRing == settings.ringAccuracy < 100
        sectorMiss == rollsSector /\ rollMisses(rnd[1], settings.sectorAccuracy)
        ringMiss == rollsRing /\ rollMisses(rnd[3], settings.ringAccuracy)
        calls(made) == IF made THEN 1 ELSE 0
        hit(draws) == [actual |-> selection, wasMiss |-> FALSE, missType |-> "null",
                       draws |-> draws]
        missed(sel, type, draws) ==
            [actual |-> sel, wasMiss |-> TRUE, missType |-> type, draws |-> draws]
    IN IF selection.value = 50
       THEN IF sectorMiss THEN missed(single(randomSector(rnd[2])), "sector", 2)
            ELSE IF ringMiss THEN missed(single(25), "ring", calls(rollsSector) + 1)
            ELSE hit(calls(rollsSector) + calls(rollsRing))
       ELSE IF selection.value = 25
       THEN IF sectorMiss
            THEN IF rnd[2] < 15
                 THEN missed(single(50), "sector", 2)
                 ELSE missed(single(randomSector(rnd[3])), "sector", 3)
            ELSE hit(calls(rollsSector))
       ELSE LET number == IF isTriple \/ isDouble
                          THEN selection.text.number ELSE selection.value
                goLeft == rnd[2] < 50
                n == Len(sectors)
                neighborIndex == IF goLeft THEN (indexOf(number) - 1 + n) % n
                                 ELSE (indexOf(number) + 1) % n
                baseNumber == IF sectorMiss THEN sectors[neighborIndex + 1] ELSE number
                ring == IF isTriple THEN triple(baseNumber) ELSE double(baseNumber)
                draws == calls(rollsSector) + calls(sectorMiss)
                           + calls((isTriple \/ isDouble) /\ rollsRing)
            IN IF (isTriple \/ isDouble) /\ rollsRing
               THEN IF ringMiss
                    THEN missed(single(baseNumber),
                                IF sectorMiss THEN "both" ELSE "ring", draws)
                    ELSE [actual |-> ring, wasMiss |-> sectorMiss,
                          missType |-> IF sectorMiss THEN "sector" ELSE "null",
                          draws |-> draws]
               ELSE IF ~isTriple /\ ~isDouble
               THEN [actual |-> single(baseNumber), wasMiss |-> sectorMiss,
                     missType |-> IF sectorMiss THEN "sector" ELSE "null",
                     draws |-> draws]
               ELSE [actual |-> ring, wasMiss |-> sectorMiss,
                     missType |-> IF sectorMiss THEN "sector" ELSE "null",
                     draws |-> draws]

\* applyMissChance drifting two sectors to the right
applyMissChance_skipsNeighbour(selection, settings, rnd) ==
    LET isTriple == selection.text.prefix = "T"
        isDouble == isDoubleText(selection)
        rollsSector == settings.sectorAccuracy < 100
        rollsRing == settings.ringAccuracy < 100
        sectorMiss == rollsSector /\ rollMisses(rnd[1], settings.sectorAccuracy)
        ringMiss == rollsRing /\ rollMisses(rnd[3], settings.ringAccuracy)
        calls(made) == IF made THEN 1 ELSE 0
        hit(draws) == [actual |-> selection, wasMiss |-> FALSE, missType |-> "null",
                       draws |-> draws]
        missed(sel, type, draws) ==
            [actual |-> sel, wasMiss |-> TRUE, missType |-> type, draws |-> draws]
    IN IF selection.value = 50
       THEN IF sectorMiss THEN missed(single(randomSector(rnd[2])), "sector", 2)
            ELSE IF ringMiss THEN missed(single(25), "ring", calls(rollsSector) + 1)
            ELSE hit(calls(rollsSector) + calls(rollsRing))
       ELSE IF selection.value = 25
       THEN IF sectorMiss
            THEN IF rnd[2] < 15
                 THEN missed(single(50), "sector", 2)
                 ELSE missed(single(randomSector(rnd[3])), "sector", 3)
            ELSE hit(calls(rollsSector))
       ELSE LET number == IF isTriple \/ isDouble
                          THEN selection.text.number ELSE selection.value
                goLeft == rnd[2] < 50
                n == Len(sectors)
                neighborIndex == IF goLeft THEN (indexOf(number) - 1 + n) % n
                                 ELSE (indexOf(number) + 2) % n
                baseNumber == IF sectorMiss THEN sectors[neighborIndex + 1] ELSE number
                ring == IF isTriple THEN triple(baseNumber) ELSE double(baseNumber)
                draws == calls(rollsSector) + calls(sectorMiss)
                           + calls((isTriple \/ isDouble) /\ rollsRing)
            IN IF (isTriple \/ isDouble) /\ rollsRing
               THEN IF ringMiss
                    THEN missed(single(baseNumber),
                                IF sectorMiss THEN "both" ELSE "ring", draws)
                    ELSE [actual |-> ring, wasMiss |-> sectorMiss,
                          missType |-> IF sectorMiss THEN "sector" ELSE "null",
                          draws |-> draws]
               ELSE IF ~isTriple /\ ~isDouble
               THEN [actual |-> single(baseNumber), wasMiss |-> sectorMiss,
                     missType |-> IF sectorMiss THEN "sector" ELSE "null",
                     draws |-> draws]
               ELSE [actual |-> ring, wasMiss |-> sectorMiss,
                     missType |-> IF sectorMiss THEN "sector" ELSE "null",
                     draws |-> draws]

\* applyMissChance reporting a ring miss after a sector miss as 'ring'
applyMissChance_neverBoth(selection, settings, rnd) ==
    LET isTriple == selection.text.prefix = "T"
        isDouble == isDoubleText(selection)
        rollsSector == settings.sectorAccuracy < 100
        rollsRing == settings.ringAccuracy < 100
        sectorMiss == rollsSector /\ rollMisses(rnd[1], settings.sectorAccuracy)
        ringMiss == rollsRing /\ rollMisses(rnd[3], settings.ringAccuracy)
        calls(made) == IF made THEN 1 ELSE 0
        hit(draws) == [actual |-> selection, wasMiss |-> FALSE, missType |-> "null",
                       draws |-> draws]
        missed(sel, type, draws) ==
            [actual |-> sel, wasMiss |-> TRUE, missType |-> type, draws |-> draws]
    IN IF selection.value = 50
       THEN IF sectorMiss THEN missed(single(randomSector(rnd[2])), "sector", 2)
            ELSE IF ringMiss THEN missed(single(25), "ring", calls(rollsSector) + 1)
            ELSE hit(calls(rollsSector) + calls(rollsRing))
       ELSE IF selection.value = 25
       THEN IF sectorMiss
            THEN IF rnd[2] < 15
                 THEN missed(single(50), "sector", 2)
                 ELSE missed(single(randomSector(rnd[3])), "sector", 3)
            ELSE hit(calls(rollsSector))
       ELSE LET number == IF isTriple \/ isDouble
                          THEN selection.text.number ELSE selection.value
                goLeft == rnd[2] < 50
                n == Len(sectors)
                neighborIndex == IF goLeft THEN (indexOf(number) - 1 + n) % n
                                 ELSE (indexOf(number) + 1) % n
                baseNumber == IF sectorMiss THEN sectors[neighborIndex + 1] ELSE number
                ring == IF isTriple THEN triple(baseNumber) ELSE double(baseNumber)
                draws == calls(rollsSector) + calls(sectorMiss)
                           + calls((isTriple \/ isDouble) /\ rollsRing)
            IN IF (isTriple \/ isDouble) /\ rollsRing
               THEN IF ringMiss
                    THEN missed(single(baseNumber),
                                "ring", draws)
                    ELSE [actual |-> ring, wasMiss |-> sectorMiss,
                          missType |-> IF sectorMiss THEN "sector" ELSE "null",
                          draws |-> draws]
               ELSE IF ~isTriple /\ ~isDouble
               THEN [actual |-> single(baseNumber), wasMiss |-> sectorMiss,
                     missType |-> IF sectorMiss THEN "sector" ELSE "null",
                     draws |-> draws]
               ELSE [actual |-> ring, wasMiss |-> sectorMiss,
                     missType |-> IF sectorMiss THEN "sector" ELSE "null",
                     draws |-> draws]

\* applyMissChance checking the ring before the sector for bull 50
applyMissChance_bullRingAfterSectorMiss(selection, settings, rnd) ==
    LET isTriple == selection.text.prefix = "T"
        isDouble == isDoubleText(selection)
        rollsSector == settings.sectorAccuracy < 100
        rollsRing == settings.ringAccuracy < 100
        sectorMiss == rollsSector /\ rollMisses(rnd[1], settings.sectorAccuracy)
        ringMiss == rollsRing /\ rollMisses(rnd[3], settings.ringAccuracy)
        calls(made) == IF made THEN 1 ELSE 0
        hit(draws) == [actual |-> selection, wasMiss |-> FALSE, missType |-> "null",
                       draws |-> draws]
        missed(sel, type, draws) ==
            [actual |-> sel, wasMiss |-> TRUE, missType |-> type, draws |-> draws]
    IN IF selection.value = 50
       THEN IF ringMiss THEN missed(single(25), "ring", calls(rollsSector) + 1)
            ELSE IF sectorMiss THEN missed(single(randomSector(rnd[2])), "sector", 2)
            ELSE hit(calls(rollsSector) + calls(rollsRing))
       ELSE IF selection.value = 25
       THEN IF sectorMiss
            THEN IF rnd[2] < 15
                 THEN missed(single(50), "sector", 2)
                 ELSE missed(single(randomSector(rnd[3])), "sector", 3)
            ELSE hit(calls(rollsSector))
       ELSE LET number == IF isTriple \/ isDouble
                          THEN selection.text.number ELSE selection.value
                goLeft == rnd[2] < 50
                n == Len(sectors)
                neighborIndex == IF goLeft THEN (indexOf(number) - 1 + n) % n
                                 ELSE (indexOf(number) + 1) % n
                baseNumber == IF sectorMiss THEN sectors[neighborIndex + 1] ELSE number
                ring == IF isTriple THEN triple(baseNumber) ELSE double(baseNumber)
                draws == calls(rollsSector) + calls(sectorMiss)
                           + calls((isTriple \/ isDouble) /\ rollsRing)
            IN IF (isTriple \/ isDouble) /\ rollsRing
               THEN IF ringMiss
                    THEN missed(single(baseNumber),
                                IF sectorMiss THEN "both" ELSE "ring", draws)
                    ELSE [actual |-> ring, wasMiss |-> sectorMiss,
                          missType |-> IF sectorMiss THEN "sector" ELSE "null",
                          draws |-> draws]
               ELSE IF ~isTriple /\ ~isDouble
               THEN [actual |-> single(baseNumber), wasMiss |-> sectorMiss,
                     missType |-> IF sectorMiss THEN "sector" ELSE "null",
                     draws |-> draws]
               ELSE [actual |-> ring, wasMiss |-> sectorMiss,
                     missType |-> IF sectorMiss THEN "sector" ELSE "null",
                     draws |-> draws]

\* applyMissChance(selection): rnd = <<r1, r2, r3>> are the values of the
\* Math.random() calls it can make: the sector roll, the choice made after
\* a sector miss, and the ring roll (for bull 25: the random sector);
\* draws is the number of Math.random() calls the path taken makes
applyMissChance(selection, settings, rnd) ==
    LET isTriple == selection.text.prefix = "T"
        isDouble == isDoubleText(selection)
        rollsSector == settings.sectorAccuracy < 100
        rollsRing == settings.ringAccuracy < 100
        sectorMiss == rollsSector /\ rollMisses(rnd[1], settings.sectorAccuracy)
        ringMiss == rollsRing /\ rollMisses(rnd[3], settings.ringAccuracy)
        calls(made) == IF made THEN 1 ELSE 0
        hit(draws) == [actual |-> selection, wasMiss |-> FALSE, missType |-> "null",
                       draws |-> draws]
        missed(sel, type, draws) ==
            [actual |-> sel, wasMiss |-> TRUE, missType |-> type, draws |-> draws]
    IN IF selection.value = 50
       THEN IF sectorMiss THEN missed(single(randomSector(rnd[2])), "sector", 2)
            ELSE IF ringMiss THEN missed(single(25), "ring", calls(rollsSector) + 1)
            ELSE hit(calls(rollsSector) + calls(rollsRing))
       ELSE IF selection.value = 25
       THEN IF sectorMiss
            THEN IF rnd[2] < 15
                 THEN missed(single(50), "sector", 2)
                 ELSE missed(single(randomSector(rnd[3])), "sector", 3)
            ELSE hit(calls(rollsSector))
       ELSE LET number == IF isTriple \/ isDouble
                          THEN selection.text.number ELSE selection.value
                goLeft == rnd[2] < 50
                n == Len(sectors)
                neighborIndex == IF goLeft THEN (indexOf(number) - 1 + n) % n
                                 ELSE (indexOf(number) + 1) % n
                baseNumber == IF sectorMiss THEN sectors[neighborIndex + 1] ELSE number
                ring == IF isTriple THEN triple(baseNumber) ELSE double(baseNumber)
                draws == calls(rollsSector) + calls(sectorMiss)
                           + calls((isTriple \/ isDouble) /\ rollsRing)
            IN IF (isTriple \/ isDouble) /\ rollsRing
               THEN IF ringMiss
                    THEN missed(single(baseNumber),
                                IF sectorMiss THEN "both" ELSE "ring", draws)
                    ELSE [actual |-> ring, wasMiss |-> sectorMiss,
                          missType |-> IF sectorMiss THEN "sector" ELSE "null",
                          draws |-> draws]
               ELSE IF ~isTriple /\ ~isDouble
               THEN [actual |-> single(baseNumber), wasMiss |-> sectorMiss,
                     missType |-> IF sectorMiss THEN "sector" ELSE "null",
                     draws |-> draws]
               ELSE [actual |-> ring, wasMiss |-> sectorMiss,
                     missType |-> IF sectorMiss THEN "sector" ELSE "null",
                     draws |-> draws]

\* the module's state before init(): the literals of game.js
practiceIdle ==
    [settings |-> defaultSettings,
     cookie |-> Undefined,
     currentTarget |-> 0,
     originalTarget |-> 0,
     remainingDarts |-> 3,
     gameStatus |-> "null",
     gameHistory |-> <<>>,
     throwsUsed |-> 0,
     currentRoundThrows |-> <<>>,
     timers |-> 0,
     hung |-> FALSE,
     darts |-> 0,
     saves |-> 0]

\* the draw without "+ settings.min"
drawTarget_noOffset(settings, r) ==
    (r * (settings.max - settings.min + 1)) \div 100

\* Math.floor(Math.random() * (max - min + 1)) + min
drawTarget(settings, r) ==
    ((r * (settings.max - settings.min + 1)) \div 100) + settings.min

\* the do-while of generateTarget can end: some value of [min, max] is no noOut
canDraw(settings) == \E t \in settings.min .. settings.max : t \notin noOuts

\* generateTarget() when the last Math.random() of its loop is r / 100; with
\* no value to draw the loop never ends and the page hangs
generateTarget(p, r) ==
    IF ~canDraw(p.settings) THEN [p EXCEPT !.hung = TRUE]
    ELSE [p EXCEPT
            !.currentTarget = drawTarget(p.settings, r),
            !.originalTarget = drawTarget(p.settings, r),
            !.remainingDarts = 3,
            !.gameStatus = "null",
            !.throwsUsed = 0,
            !.currentRoundThrows = <<>>]

\* the last draw of the loop of generateTarget is one it accepts (any draw
\* when the loop cannot end)
accepts(settings, r) ==
    canDraw(settings) => drawTarget(settings, r) \notin noOuts

\* recordGame(result): newest first, at most 10 kept (the time is left out)
recordGame(p, result) ==
    LET entry == [result |-> result, throws |-> p.throwsUsed, target |-> p.originalTarget]
        all == <<entry>> \o p.gameHistory
    IN [p EXCEPT !.gameHistory = IF Len(all) > 10 THEN SubSeq(all, 1, 10) ELSE all,
                 !.timers = @ + 1]

\* handleThrow in which any throw that reaches exactly 0 wins
handleThrow_zeroWins(p, selection, rnd) ==
    LET actual == applyMissChance(selection, p.settings, rnd).actual
        thrown == [p EXCEPT
                     !.currentRoundThrows = Append(@, actual),
                     !.gameStatus = "null",
                     !.throwsUsed = @ + 1,
                     !.currentTarget = @ - actual.value,
                     !.remainingDarts = @ - 1]
    IN IF thrown.currentTarget = 0
       THEN recordGame([thrown EXCEPT !.gameStatus = "win"], "W")
       ELSE IF thrown.currentTarget < 0
       THEN recordGame([thrown EXCEPT !.gameStatus = "lose"], "L")
       ELSE IF thrown.remainingDarts = 0
       THEN recordGame([thrown EXCEPT !.gameStatus = "lose"], "L")
       ELSE thrown

\* handleThrow(selection); each resolution schedules generateTarget after 1.5 s
handleThrow(p, selection, rnd) ==
    LET actual == applyMissChance(selection, p.settings, rnd).actual
        thrown == [p EXCEPT
                     !.currentRoundThrows = Append(@, actual),
                     !.gameStatus = "null",
                     !.throwsUsed = @ + 1,
                     !.currentTarget = @ - actual.value,
                     !.remainingDarts = @ - 1]
    IN IF thrown.currentTarget = 0
       THEN IF isDoubleText(actual)
            THEN recordGame([thrown EXCEPT !.gameStatus = "win"], "W")
            ELSE recordGame([thrown EXCEPT !.gameStatus = "lose"], "L")
       ELSE IF thrown.currentTarget < 0
       THEN recordGame([thrown EXCEPT !.gameStatus = "lose"], "L")
       ELSE IF thrown.remainingDarts = 0
       THEN recordGame([thrown EXCEPT !.gameStatus = "lose"], "L")
       ELSE thrown

(***************************************************************************)
(* Room sync.  Each device runs the sync client of src/sync.js under the   *)
(* counter app; the relay is the DartsParty server of src/unnamed/part_003.*)
(* A device is [gameState, socket, currentRoomCode, isConnected, timer,    *)
(* up, down]: timer is the pending 500 ms timeout of the create-room       *)
(* button, up the messages its socket sent that the relay has not yet      *)
(* processed, down the messages the relay sent it that its message         *)
(* listener has not yet run for.  A WebSocket keeps the order of messages, *)
(* and every message holds a state as JSON.                                *)
(***************************************************************************)
Devices == {1, 2}

\* most local events of one session: mutating calls, lost connections and
\* disconnect clicks together
MaxEvents == 2

\* the one room code the devices use
RoomCode == "ROOM"

\* module state of sync.js after import, beside a loaded game
deviceIdle(gs) ==
    [gameState |-> gs,
     socket |-> "null",
     currentRoomCode |-> "null",
     isConnected |-> FALSE,
     timer |-> FALSE,
     profile |-> Undefined,
     pendingProfileAdd |-> FALSE,
     up |-> <<>>,
     down |-> <<>>]

isInRoom(dev) == dev.isConnected /\ dev.currentRoomCode # "null"

\* broadcastState that sends whenever a socket exists
broadcastState_ignoresConnection(dev, state) ==
    IF dev.socket # "null"
    THEN [dev EXCEPT !.up = Append(@, jsonCopy(state))]
    ELSE dev

broadcastState(dev, state) ==
    IF dev.socket # "null" /\ dev.isConnected
    THEN [dev EXCEPT !.up = Append(@, jsonCopy(state))]
    ELSE dev

\* the callback setupSync registers with onStateChange
onStateChangeCallback(dev, state) ==
    IF isInRoom(dev) THEN broadcastState(dev, state) ELSE dev

\* disconnect(): messages already sent stay on their way; the message
\* listener finds onStateUpdate null and drops what still arrives
disconnect(dev) ==
    [dev EXCEPT
       !.socket = "null",
       !.currentRoomCode = "null",
       !.isConnected = FALSE,
       !.down = <<>>]

connectToRoom(dev, roomCode) ==
    [disconnect(dev) EXCEPT !.socket = "PartySocket", !.currentRoomCode = roomCode]

\* the mutating calls a device makes, as [op, arg]
CallInputs ==
    {[op |-> "addPlayer", arg |-> <<"Bob">>],
     [op |-> "removePlayer", arg |-> <<0>>],
     [op |-> "movePlayer", arg |-> <<0, 1>>],
     [op |-> "setGameMode", arg |-> <<Mode501>>],
     [op |-> "setDoubleOut", arg |-> <<FALSE>>],
     [op |-> "startGame", arg |-> <<>>],
     [op |-> "addThrow", arg |-> <<T20>>],
     [op |-> "addThrow", arg |-> <<D1>>],
     [op |-> "undoThrow", arg |-> <<>>],
     [op |-> "resetGame", arg |-> <<>>],
     [op |-> "fullReset", arg |-> <<>>]}

\* what the call leaves and returns
apply(gs, c) ==
    CASE c.op = "addPlayer" -> addPlayer(gs, c.arg[1])
      [] c.op = "removePlayer" -> removePlayer(gs, c.arg[1])
      [] c.op = "movePlayer" -> movePlayer(gs, c.arg[1], c.arg[2])
      [] c.op = "setGameMode" -> setGameMode(gs, c.arg[1])
      [] c.op = "setDoubleOut" -> setDoubleOut(gs, c.arg[1])
      [] c.op = "startGame" -> startGame(gs)
      [] c.op = "addThrow" -> addThrow(gs, c.arg[1])
      [] c.op = "undoThrow" -> undoThrow(gs)
      [] c.op = "resetGame" -> resetGame(gs)
      [] c.op = "fullReset" -> fullReset(gs)

\* the calls of saveGameState where undoThrow returns without saving
savedStates_undoUnsaved(gs, c) ==
    LET r == apply(gs, c)
    IN IF ~r.result.success \/ c.op = "undoThrow" THEN <<>>
       ELSE IF c.op = "addThrow" /\ r.result.tag \in {"win", "turnComplete"}
       THEN <<[gs EXCEPT !.currentTurn.throws = Append(@, c.arg[1])], r.state>>
       ELSE <<r.state>>

\* the states saveGameState is called in during the call, in order: none on
\* a path that returns failure, the state left otherwise, and for addThrow
\* before it the state with the throw recorded when the throw does not bust
\* and ends the turn
savedStates(gs, c) ==
    LET r == apply(gs, c)
    IN IF ~r.result.success THEN <<>>
       ELSE IF c.op = "addThrow" /\ r.result.tag \in {"win", "turnComplete"}
       THEN <<[gs EXCEPT !.currentTurn.throws = Append(@, c.arg[1])], r.state>>
       ELSE <<r.state>>

\* notifyStateChange for each saveGameState of a call
RECURSIVE notifyStateChange(_, _)
notifyStateChange(dev, states) ==
    IF states = <<>> THEN dev
    ELSE notifyStateChange(onStateChangeCallback(dev, Head(states)), Tail(states))

\* the device after the call c
localCall(dev, c) ==
    notifyStateChange([dev EXCEPT !.gameState = apply(dev.gameState, c).state],
                      savedStates(dev.gameState, c))

\* DartsParty.onConnect: what the relay sends the new connection
onConnect(party) ==
    IF party.gameState # Undefined THEN <<party.gameState[1]>> ELSE <<>>

\* DartsParty.onMessage for a state message: what the relay stores
onMessage(party, state) == [party EXCEPT !.gameState = Some(state)]

\* room.broadcast(message): to every connection, the sender's included
broadcast(devices, state) ==
    [d \in Devices |->
       IF devices[d].isConnected THEN [devices[d] EXCEPT !.down = Append(@, state)]
       ELSE devices[d]]

\* isProfilePlayerInGame(): the profile's player is among the players
isProfilePlayerInGame(gs, name) ==
    \E i \in DOMAIN gs.players : gs.players[i].name = name

\* addProfilePlayer(): the device adds its profile's player, which saves
\* and notifies as addPlayer does
addProfilePlayer(dev) ==
    LET r == addPlayer(dev.gameState, dev.profile[1])
    IN IF r.result.success
       THEN onStateChangeCallback([dev EXCEPT !.gameState = r.state], r.state)
       ELSE dev

\* handleSyncedState that also hands the applied state to the state-change
\* callback
onStateUpdate_notifies(dev, state) ==
    LET applied == [dev EXCEPT !.gameState = applySyncedState(@, state).state]
    IN onStateChangeCallback(applied, applied.gameState)

\* the message listener of connectToRoom, through handleSyncedState: the
\* state is applied, and a joiner that has just connected adds its profile
\* player and broadcasts
onStateUpdate(dev, state) ==
    LET applied == [dev EXCEPT !.gameState = applySyncedState(@, state).state,
                               !.pendingProfileAdd = FALSE]
    IN IF dev.pendingProfileAdd /\ dev.profile # Undefined
          /\ ~isProfilePlayerInGame(applied.gameState, dev.profile[1])
       THEN LET added == addProfilePlayer(applied)
            IN IF isInRoom(added) THEN broadcastState(added, added.gameState)
               ELSE added
       ELSE applied

\* the calls the devices of SyncSpec make
LocalCalls ==
    {c \in CallInputs :
        \/ c.op \in {"addPlayer", "undoThrow"}
        \/ c.op = "addThrow" /\ c.arg[1] = D1}

\* the device that creates the room; the others join it
Host == 1

\* the games the host finds in its cookie; the others start afresh
DeviceGames == {initialGameState, jsonCopy(checkoutAtTwo)}

roomIdle ==
    [devices |-> [d \in Devices |-> deviceIdle(initialGameState)],
     party |-> [gameState |-> Undefined],
     events |-> 0]

(***************************************************************************)
(* State after construction: the module literal, merged with the saved     *)
(* game when there is one; init() shows the screen that fits.              *)
(***************************************************************************)
Init ==
    /\ gameState \in {initialGameState} \cup SavedGames
    /\ currentScreen = IF gameState.gameStarted THEN "game-play" ELSE "player-setup"
    /\ last = [op |-> "loadGameState", result |-> Result(gameState.gameStarted, "load")]
    /\ budget = MaxThrows
    /\ practice = practiceIdle
    /\ room = roomIdle

\* a call of an exported operation: r is what it returns and leaves
Call(op, r) ==
    /\ gameState' = r.state
    /\ last' = [op |-> op, result |-> r.result]
    /\ UNCHANGED <<practice, room>>

(***************************************************************************)
(* ApiSpec: exported operations of counter-game.js, called in any order.   *)
(* A player-management call or startGame that returns false changes        *)
(* nothing and is left out; addThrow and undoThrow are called in every     *)
(* state.                                                                  *)
(***************************************************************************)
ApiAddPlayer(name) ==
    /\ Len(gameState.players) < MaxPlayers
    /\ addPlayer(gameState, name).result.success
    /\ Call("addPlayer", addPlayer(gameState, name))
    /\ UNCHANGED <<currentScreen, budget>>

ApiRemovePlayer(index) ==
    /\ removePlayer(gameState, index).result.success
    /\ Call("removePlayer", removePlayer(gameState, index))
    /\ UNCHANGED <<currentScreen, budget>>

ApiMovePlayer(fromIndex, toIndex) ==
    /\ movePlayer(gameState, fromIndex, toIndex).result.success
    /\ Call("movePlayer", movePlayer(gameState, fromIndex, toIndex))
    /\ UNCHANGED <<currentScreen, budget>>

ApiStartGame ==
    /\ startGame(gameState).result.success
    /\ Call("startGame", startGame(gameState))
    /\ UNCHANGED <<currentScreen, budget>>

ApiResetGame ==
    /\ Call("resetGame", resetGame(gameState))
    /\ UNCHANGED <<currentScreen, budget>>

ApiAddThrow(throw) ==
    /\ budget > 0
    /\ Call("addThrow", addThrow(gameState, throw))
    /\ budget' = budget - 1
    /\ UNCHANGED currentScreen

ApiUndoThrow ==
    /\ Call("undoThrow", undoThrow(gameState))
    /\ UNCHANGED <<currentScreen, budget>>

ApiApplySyncedState(syncedState) ==
    /\ Call("applySyncedState", applySyncedState(gameState, syncedState))
    /\ UNCHANGED <<currentScreen, budget>>

ApiNext ==
    \/ \E name \in NameInputs : ApiAddPlayer(name)
    \/ \E index \in 0..MaxPlayers : ApiRemovePlayer(index)
    \/ \E fromIndex, toIndex \in 0..MaxPlayers : ApiMovePlayer(fromIndex, toIndex)
    \/ ApiStartGame
    \/ ApiResetGame
    \/ \E throw \in Throws : ApiAddThrow(throw)
    \/ ApiUndoThrow
    \/ \E syncedState \in PeerStates : ApiApplySyncedState(syncedState)

ApiSpec == Init /\ [][ApiNext]_vars

(***************************************************************************)
(* Spec: the counter app.  showScreen leaves one screen visible, and a     *)
(* control is used only on the screen that shows it.                       *)
(***************************************************************************)
\* add-player-btn, and Enter in the name input (player-setup screen)
AddPlayerClick(name) ==
    /\ currentScreen = "player-setup"
    /\ Len(gameState.players) < MaxPlayers
    /\ addPlayer(gameState, name).result.success
    /\ Call("addPlayer", addPlayer(gameState, name))
    /\ UNCHANGED <<currentScreen, budget>>

\* delete-player-btn of the player list (player-setup screen)
DeletePlayerClick(index) ==
    /\ currentScreen = "player-setup"
    /\ removePlayer(gameState, index).result.success
    /\ Call("removePlayer", removePlayer(gameState, index))
    /\ UNCHANGED <<currentScreen, budget>>

\* move-up-btn / move-down-btn of the player list and of the player order list
MovePlayerClick(index, toIndex) ==
    /\ currentScreen \in {"player-setup", "game-setup"}
    /\ toIndex \in {index - 1, index + 1}
    /\ movePlayer(gameState, index, toIndex).result.success
    /\ Call("movePlayer", movePlayer(gameState, index, toIndex))
    /\ UNCHANGED <<currentScreen, budget>>

\* to-game-setup-btn
ToGameSetupClick ==
    /\ currentScreen = "player-setup"
    /\ Len(gameState.players) > 0
    /\ currentScreen' = "game-setup"
    /\ UNCHANGED <<gameState, last, budget, practice, room>>

\* back-to-players-btn
BackToPlayersClick ==
    /\ currentScreen = "game-setup"
    /\ currentScreen' = "player-setup"
    /\ UNCHANGED <<gameState, last, budget, practice, room>>

\* mode-301-btn, mode-501-btn
ModeClick(score) ==
    /\ currentScreen = "game-setup"
    /\ score \in {Mode301, Mode501}
    /\ Call("setGameMode", setGameMode(gameState, score))
    /\ UNCHANGED <<currentScreen, budget>>

\* double-out-toggle
DoubleOutToggleClick ==
    /\ currentScreen = "game-setup"
    /\ Call("setDoubleOut", setDoubleOut(gameState, ~gameState.doubleOut))
    /\ UNCHANGED <<currentScreen, budget>>

\* start-game-btn
StartGameClick ==
    /\ currentScreen = "game-setup"
    /\ startGame(gameState).result.success
    /\ Call("startGame", startGame(gameState))
    /\ currentScreen' = "game-play"
    /\ UNCHANGED budget

\* handleThrowInput(throwData), from the board or the blank button
handleThrowInput(throw) ==
    /\ currentScreen = "game-play"
    /\ gameState.winner = NoWinner
    /\ budget > 0
    /\ Call("addThrow", addThrow(gameState, throw))
    /\ budget' = budget - 1
    /\ UNCHANGED currentScreen

\* undo-btn
UndoClick ==
    /\ currentScreen = "game-play"
    /\ Call("undoThrow", undoThrow(gameState))
    /\ UNCHANGED <<currentScreen, budget>>

\* "same players" of the winner modal, "keep players" of the new game modal
KeepPlayersClick ==
    /\ currentScreen = "game-play"
    /\ Call("resetGame", resetGame(gameState))
    /\ currentScreen' = "game-setup"
    /\ UNCHANGED budget

\* "start fresh" of the winner modal, "clear all" of the new game modal
ClearAllClick ==
    /\ currentScreen = "game-play"
    /\ Call("fullReset", fullReset(gameState))
    /\ currentScreen' = "player-setup"
    /\ UNCHANGED budget

\* handleSyncedState(state): a state message of the room arrives
handleSyncedState(state) ==
    /\ Call("applySyncedState", applySyncedState(gameState, state))
    /\ currentScreen' =
         IF state.gameStarted THEN "game-play"
         ELSE IF Len(state.players) > 0 /\ currentScreen = "game-play" THEN "game-setup"
         ELSE currentScreen
    /\ UNCHANGED budget

Next ==
    \/ \E name \in NameInputs : AddPlayerClick(name)
    \/ \E index \in 0..MaxPlayers : DeletePlayerClick(index)
    \/ \E index \in 0..MaxPlayers, toIndex \in 0..MaxPlayers : MovePlayerClick(index, toIndex)
    \/ ToGameSetupClick
    \/ BackToPlayersClick
    \/ \E score \in ModeInputs : ModeClick(score)
    \/ DoubleOutToggleClick
    \/ StartGameClick
    \/ \E throw \in Throws : handleThrowInput(throw)
    \/ UndoClick
    \/ KeepPlayersClick
    \/ ClearAllClick
    \/ \E state \in PeerStates : handleSyncedState(state)

Spec == Init /\ [][Next]_vars

(***************************************************************************)
(* LocalSpec: the app on a single device, no room joined: every handler    *)
(* of Spec but handleSyncedState.                                          *)
(***************************************************************************)
LocalNext ==
    \/ \E name \in NameInputs : AddPlayerClick(name)
    \/ \E index \in 0..MaxPlayers : DeletePlayerClick(index)
    \/ \E index \in 0..MaxPlayers, toIndex \in 0..MaxPlayers : MovePlayerClick(index, toIndex)
    \/ ToGameSetupClick
    \/ BackToPlayersClick
    \/ \E score \in ModeInputs : ModeClick(score)
    \/ DoubleOutToggleClick
    \/ StartGameClick
    \/ \E throw \in Throws : handleThrowInput(throw)
    \/ UndoClick
    \/ KeepPlayersClick
    \/ ClearAllClick

LocalSpec == Init /\ [][LocalNext]_vars

(***************************************************************************)
(* PlaySpec: one device playing on the game-play screen: throws and undo   *)
(* only.                                                                   *)
(***************************************************************************)
PlayNext ==
    \/ \E throw \in Throws : handleThrowInput(throw)
    \/ UndoClick

PlaySpec == Init /\ [][PlayNext]_vars

(***************************************************************************)
(* ThrowSpec: a saved game is resumed and only throws are entered, from    *)
(* the board or the blank button; nothing is undone.                       *)
(***************************************************************************)
ThrowInit ==
    /\ gameState \in SavedGames \cup CheckoutGames
    /\ currentScreen = "game-play"
    /\ last = [op |-> "loadGameState", result |-> Result(TRUE, "load")]
    /\ budget = MaxThrows
    /\ practice = practiceIdle
    /\ room = roomIdle

ThrowNext == \E throw \in Throws \cup CheckoutThrows : handleThrowInput(throw)

ThrowSpec == ThrowInit /\ [][ThrowNext]_vars

(***************************************************************************)
(* PracticeSpec: the practice app (src/app.js over src/game.js).  init()   *)
(* builds the board and draws the first target; the board throws, the      *)
(* settings modal saves, the 1.5 s timers of resolved rounds fire, the     *)
(* page is reloaded.                                                       *)
(***************************************************************************)
\* what the board lets the player select
PracticeSelections == {double(20), double(1), single(20), single(50)}

\* what the settings modal hands to updateSettings (parseInt(...) || default)
SettingInputs ==
    LET given(mins, maxs, rings, sects) ==
            [min : {Some(x) : x \in mins}, max : {Some(x) : x \in maxs},
             ringAccuracy : {Some(x) : x \in rings},
             sectorAccuracy : {Some(x) : x \in sects}]
    IN given({-5, 160}, {40}, {100}, {100})
         \cup given({160}, {300}, {100}, {100})
         \cup given({2}, {170}, {50}, {50})
         \cup given({169}, {169}, {100}, {100})

\* saveSettings(): the cookie holds the practice settings
saveSettings(settings) ==
    Some([min |-> Some(settings.min), max |-> Some(settings.max),
          ringAccuracy |-> Some(settings.ringAccuracy),
          sectorAccuracy |-> Some(settings.sectorAccuracy)])

\* most saves of the settings modal in one session
MaxSaves == 1

\* a settings cookie written by the other games holds no practice field
ForeignCookie ==
    Some([min |-> Undefined, max |-> Undefined,
          ringAccuracy |-> Undefined, sectorAccuracy |-> Undefined])

\* module load (loadSettings) followed by init() (generateTarget)
pageLoad(cookie, darts, saves, k) ==
    generateTarget([practiceIdle EXCEPT
                      !.settings = loadSettings(defaultSettings, cookie),
                      !.cookie = cookie,
                      !.darts = darts,
                      !.saves = saves],
                   k)

PracticeInit ==
    /\ \E cookie \in {Undefined, ForeignCookie} :
         \E k \in TargetRandoms :
            /\ accepts(loadSettings(defaultSettings, cookie), k)
            /\ practice = pageLoad(cookie, MaxDarts, MaxSaves, k)
    /\ gameState = initialGameState
    /\ currentScreen = "practice"
    /\ last = [op |-> "init", result |-> Result(TRUE, "init")]
    /\ budget = 0
    /\ room = roomIdle

Practice(op, p) ==
    /\ ~practice.hung
    /\ practice' = p
    /\ last' = [op |-> op, result |-> Result(TRUE, p.gameStatus)]
    /\ UNCHANGED <<gameState, currentScreen, budget, room>>

\* handleDragEnd / handleClick of the board
BoardThrow(selection, rnd) ==
    /\ practice.darts > 0
    /\ Practice("handleThrow",
                [handleThrow(practice, selection, rnd) EXCEPT !.darts = @ - 1])

\* a setTimeout(() => generateTarget(), 1500) comes due
TimerFires(k) ==
    /\ practice.timers > 0
    /\ accepts(practice.settings, k)
    /\ Practice("generateTarget",
                generateTarget([practice EXCEPT !.timers = @ - 1], k))

\* settings-save: updateSettings, saveSettings, generateTarget
SaveSettingsClick(newSettings, k) ==
    /\ practice.saves > 0
    /\ LET settings == updateSettings(practice.settings, newSettings)
       IN /\ accepts(settings, k)
          /\ Practice("updateSettings",
                      generateTarget([practice EXCEPT
                                        !.settings = settings,
                                        !.cookie = saveSettings(settings),
                                        !.saves = @ - 1],
                                     k))

\* the page is loaded again: pending timers and the history are gone
Reload(k) ==
    /\ practice.gameHistory # <<>> \/ practice.settings # defaultSettings
    /\ accepts(loadSettings(defaultSettings, practice.cookie), k)
    /\ Practice("loadSettings",
                pageLoad(practice.cookie, practice.darts, practice.saves, k))

PracticeNext ==
    \/ \E selection \in PracticeSelections, rnd \in [1..3 -> Randoms] :
          BoardThrow(selection, rnd)
    \/ \E k \in TargetRandoms : TimerFires(k)
    \/ \E newSettings \in SettingInputs, k \in TargetRandoms :
          SaveSettingsClick(newSettings, k)
    \/ \E k \in TargetRandoms : Reload(k)

PracticeSpec == PracticeInit /\ [][PracticeNext]_vars

(***************************************************************************)
(* SyncSpec: two devices run the counter app and share one room.  A device *)
(* creates or joins the room from the share dialog, makes mutating calls,  *)
(* loses its connection (PartySocket then connects again by itself) or     *)
(* disconnects; the relay processes the messages of each connection in the *)
(* order sent.  A connection is lost only once the device has handled what *)
(* the relay sent it, and what the device sent before still arrives, so    *)
(* every message sent is delivered.                                        *)
(* SyncLiveSpec adds what the platform schedules by itself: a connecting   *)
(* socket opens, the timeout of the create-room button runs, the relay     *)
(* handles a message it was sent and a device's listener runs for a        *)
(* message it was sent.  Calls, clicks and losses may stop at any time.    *)
(***************************************************************************)
SyncInit ==
    /\ \E g \in DeviceGames :
         room = [devices |-> [d \in Devices |->
                                deviceIdle(IF d = Host THEN g ELSE initialGameState)],
                 party |-> [gameState |-> Undefined],
                 events |-> MaxEvents]
    /\ gameState = initialGameState
    /\ currentScreen = "player-setup"
    /\ last = [op |-> "init", result |-> Result(TRUE, "init")]
    /\ budget = 0
    /\ practice = practiceIdle

Sync(devices, party, events) ==
    /\ room' = [devices |-> devices, party |-> party, events |-> events]
    /\ UNCHANGED <<gameState, currentScreen, last, budget, practice>>

\* createRoomBtn click: connect, and broadcast the state 500 ms later
CreateRoomClick(d) ==
    LET dev == room.devices[d]
    IN /\ ~isInRoom(dev)
       /\ Sync([room.devices EXCEPT
                  ![d] = [connectToRoom(dev, RoomCode) EXCEPT !.timer = TRUE]],
               room.party, room.events)

\* joinRoomBtn click with the room's code
JoinRoomClick(d) ==
    LET dev == room.devices[d]
    IN /\ ~isInRoom(dev)
       /\ Sync([room.devices EXCEPT ![d] = connectToRoom(dev, RoomCode)],
               room.party, room.events)

\* the socket's "open" event; the relay's onConnect ran for the connection.
\* handleConnectionChange marks a joiner that has a profile
SocketOpen(d) ==
    LET dev == room.devices[d]
    IN /\ dev.socket # "null"
       /\ ~dev.isConnected
       /\ Sync([room.devices EXCEPT
                  ![d] = [dev EXCEPT
                            !.isConnected = TRUE,
                            !.pendingProfileAdd = @ \/ (d # Host /\ dev.profile # Undefined),
                            !.down = onConnect(room.party)]],
               room.party, room.events)

\* the timeout set by the create-room click runs
BroadcastTimer(d) ==
    LET dev == room.devices[d]
    IN /\ dev.timer
       /\ Sync([room.devices EXCEPT
                  ![d] = [(IF isInRoom(dev) THEN broadcastState(dev, dev.gameState)
                           ELSE dev) EXCEPT !.timer = FALSE]],
               room.party, room.events)

\* a mutating call of the counter game that goes through
LocalCall(d, c) ==
    LET dev == room.devices[d]
    IN /\ room.events > 0
       /\ apply(dev.gameState, c).result.success
       /\ Sync([room.devices EXCEPT ![d] = localCall(dev, c)],
               room.party, room.events - 1)

\* DartsParty.onMessage for the next message of d's connection
PartyOnMessage(d) ==
    LET dev == room.devices[d]
    IN /\ dev.up # <<>>
       /\ Sync(broadcast([room.devices EXCEPT ![d].up = Tail(@)], Head(dev.up)),
               onMessage(room.party, Head(dev.up)),
               room.events)

\* the socket's "message" event for the next message the relay sent d
SocketOnMessage(d) ==
    LET dev == room.devices[d]
    IN /\ dev.down # <<>>
       /\ Sync([room.devices EXCEPT
                  ![d] = [onStateUpdate(dev, Head(dev.down)) EXCEPT !.down = Tail(@)]],
               room.party, room.events)

\* the socket's "close" event after the connection was lost
SocketClose(d) ==
    LET dev == room.devices[d]
    IN /\ room.events > 0
       /\ dev.isConnected
       /\ dev.down = <<>>
       /\ Sync([room.devices EXCEPT ![d].isConnected = FALSE],
               room.party, room.events - 1)

\* disconnectBtn click
DisconnectClick(d) ==
    LET dev == room.devices[d]
    IN /\ room.events > 0
       /\ isInRoom(dev)
       /\ Sync([room.devices EXCEPT ![d] = disconnect(dev)],
               room.party, room.events - 1)

SyncNext ==
    \/ CreateRoomClick(Host)
    \/ \E d \in Devices \ {Host} : JoinRoomClick(d)
    \/ \E d \in Devices : SocketOpen(d)
    \/ \E d \in Devices : BroadcastTimer(d)
    \/ \E d \in Devices : \E c \in LocalCalls : LocalCall(d, c)
    \/ \E d \in Devices : PartyOnMessage(d)
    \/ \E d \in Devices : SocketOnMessage(d)
    \/ \E d \in Devices : SocketClose(d)
    \/ \E d \in Devices : DisconnectClick(d)

SyncSpec == SyncInit /\ [][SyncNext]_vars

SyncLiveSpec ==
    /\ SyncSpec
    /\ \A d \in Devices :
         /\ WF_vars(SocketOpen(d))
         /\ WF_vars(BroadcastTimer(d))
         /\ WF_vars(PartyOnMessage(d))
         /\ WF_vars(SocketOnMessage(d))

(***************************************************************************)
(* SoloSpec: the room of SyncSpec when only the host changes the game; the *)
(* other devices join and receive.                                         *)
(***************************************************************************)
SoloNext ==
    \/ CreateRoomClick(Host)
    \/ \E d \in Devices \ {Host} : JoinRoomClick(d)
    \/ \E d \in Devices : SocketOpen(d)
    \/ \E d \in Devices : BroadcastTimer(d)
    \/ \E c \in LocalCalls : LocalCall(Host, c)
    \/ \E d \in Devices : PartyOnMessage(d)
    \/ \E d \in Devices : SocketOnMessage(d)
    \/ \E d \in Devices : SocketClose(d)
    \/ \E d \in Devices : DisconnectClick(d)

SoloSpec == SyncInit /\ [][SoloNext]_vars

(***************************************************************************)
(* ProfileSpec: the room of SoloSpec where the joining device has a        *)
(* profile, whose player it adds when the first state arrives.             *)
(***************************************************************************)
\* the name of the joiner's profile
ProfileName == "Cy"

ProfileInit ==
    /\ room = [devices |-> [d \in Devices |->
                              IF d = Host THEN deviceIdle(initialGameState)
                              ELSE [deviceIdle(initialGameState)
                                      EXCEPT !.profile = Some(ProfileName)]],
               party |-> [gameState |-> Undefined],
               events |-> MaxEvents]
    /\ gameState = initialGameState
    /\ currentScreen = "player-setup"
    /\ last = [op |-> "init", result |-> Result(TRUE, "init")]
    /\ budget = 0
    /\ practice = practiceIdle

ProfileSpec == ProfileInit /\ [][SoloNext]_vars

ProfileLiveSpec ==
    /\ ProfileSpec
    /\ \A d \in Devices :
         /\ WF_vars(SocketOpen(d))
         /\ WF_vars(BroadcastTimer(d))
         /\ WF_vars(PartyOnMessage(d))
         /\ WF_vars(SocketOnMessage(d))

(***************************************************************************)
(* SocketSpec: the module state of src/sync.js on one device and the       *)
(* sockets it has created.  room holds socket (the position in sockets of  *)
(* the PartySocket the module variable refers to, 0 for null),             *)
(* currentRoomCode, isConnected, callbacks (the connectToRoom call whose   *)
(* stateCallback and connectionCallback are registered, 0 for null), the   *)
(* status of every socket created so far, and the latest event: which      *)
(* socket fired it and which call's callbacks its listener invoked.  The   *)
(* listeners of a socket stay attached after disconnect() closed it.  A    *)
(* socket is connecting, open, closing (close() called while open),        *)
(* aborted (close() called while connecting), failed (error fired, close   *)
(* event to come) or closed.                                               *)
(***************************************************************************)
\* most sockets one session creates
MaxSockets == 3

syncIdle ==
    [socket |-> 0,
     currentRoomCode |-> "null",
     isConnected |-> FALSE,
     callbacks |-> 0,
     sockets |-> <<>>,
     event |-> [socket |-> 0, type |-> "none", invoked |-> 0]]

\* disconnect(): socket.close() starts the closing of the socket
syncDisconnect(m) ==
    [m EXCEPT
       !.sockets = IF m.socket = 0 THEN @
                   ELSE [@ EXCEPT ![m.socket] = IF @ = "open" THEN "closing"
                                                ELSE IF @ = "connecting" THEN "aborted"
                                                ELSE @],
       !.socket = 0,
       !.currentRoomCode = "null",
       !.isConnected = FALSE,
       !.callbacks = 0]

\* connectToRoom(roomCode, stateCallback, connectionCallback)
syncConnectToRoom(m, roomCode) ==
    LET d == syncDisconnect(m)
        id == Len(m.sockets) + 1
    IN [d EXCEPT
          !.currentRoomCode = roomCode,
          !.callbacks = id,
          !.socket = id,
          !.sockets = Append(@, "connecting")]

\* the "open" listener of socket id
openListener(m, id) ==
    [m EXCEPT
       !.isConnected = TRUE,
       !.sockets[id] = "open",
       !.event = [socket |-> id, type |-> "open", invoked |-> m.callbacks]]

\* the "message" listener of socket id, for a state message
messageListener(m, id) ==
    [m EXCEPT !.event = [socket |-> id, type |-> "message", invoked |-> m.callbacks]]

\* the "close" listener of socket id
closeListener(m, id) ==
    [m EXCEPT
       !.isConnected = FALSE,
       !.sockets[id] = "closed",
       !.event = [socket |-> id, type |-> "close", invoked |-> m.callbacks]]

\* the "error" listener of socket id; the close event follows
errorListener(m, id) ==
    [m EXCEPT
       !.isConnected = FALSE,
       !.sockets[id] = "failed",
       !.event = [socket |-> id, type |-> "error", invoked |-> m.callbacks]]

SocketInit ==
    /\ room = syncIdle
    /\ gameState = initialGameState
    /\ currentScreen = "player-setup"
    /\ last = [op |-> "init", result |-> Result(TRUE, "init")]
    /\ budget = 0
    /\ practice = practiceIdle

Module(m) ==
    /\ room' = m
    /\ UNCHANGED <<gameState, currentScreen, last, budget, practice>>

\* create or join a room
ConnectToRoomCall ==
    /\ Len(room.sockets) < MaxSockets
    /\ Module(syncConnectToRoom(room, RoomCode))

\* leave the room
DisconnectCall ==
    /\ room.socket # 0
    /\ Module(syncDisconnect(room))

\* the connection of socket id is established
OpenEvent(id) ==
    /\ id \in DOMAIN room.sockets
    /\ room.sockets[id] = "connecting"
    /\ Module(openListener(room, id))

\* the relay sends a state to socket id; a closing socket still delivers
\* what arrives before its close event
MessageEvent(id) ==
    /\ id \in DOMAIN room.sockets
    /\ room.sockets[id] \in {"open", "closing"}
    /\ Module(messageListener(room, id))

\* socket id is closed: after close(), or because the connection is lost
CloseEvent(id) ==
    /\ id \in DOMAIN room.sockets
    /\ room.sockets[id] # "closed"
    /\ Module(closeListener(room, id))

\* the connection of socket id fails
ErrorEvent(id) ==
    /\ id \in DOMAIN room.sockets
    /\ room.sockets[id] \in {"connecting", "open", "closing", "aborted"}
    /\ Module(errorListener(room, id))

SocketNext ==
    \/ ConnectToRoomCall
    \/ DisconnectCall
    \/ \E id \in 1..MaxSockets : OpenEvent(id)
    \/ \E id \in 1..MaxSockets : MessageEvent(id)
    \/ \E id \in 1..MaxSockets : CloseEvent(id)
    \/ \E id \in 1..MaxSockets : ErrorEvent(id)

SocketSpec == SocketInit /\ [][SocketNext]_vars

(***************************************************************************)
(* Board geometry (src/board.js) and the two resolvers.  Radii are in      *)
(* thousandths of a percent of the board radius, angles in hundredths of a *)
(* degree, so that every literal of board.js is an integer.                *)
(***************************************************************************)
RING_BOUNDARIES ==
    [BULL_50 |-> 140, BULL_25 |-> 890, INNER_SINGLE |-> 33890,
     TRIPLE |-> 39590, OUTER_SINGLE |-> 90790, DOUBLE |-> 100000]

TARGET_RADII ==
    [BULL_50 |-> 70, BULL_25 |-> 515, SINGLE |-> 65190, TRIPLE |-> 36740,
     DOUBLE |-> 95400]

\* 18 degrees, and the 360 of the angle normalisation
SECTOR_ANGLE == 1800
FullTurn == 36000

\* the data-score values of the sector elements
SectorNumbers == {sectors[i] : i \in DOMAIN sectors}

\* getActiveSelection giving a triple the value of a double
getActiveSelection_tripleAsDouble(score, mode) ==
    CASE mode = "outerBull" -> Selection("", 25, 25)
      [] mode = "double" -> Selection("D", score, score * 2)
      [] mode = "triple" -> Selection("T", score, score * 2)
      [] OTHER -> Selection("", score, score)

\* getActiveSelection() for the active element's data-score and data-mode
getActiveSelection(score, mode) ==
    CASE mode = "outerBull" -> Selection("", 25, 25)
      [] mode = "double" -> Selection("D", score, score * 2)
      [] mode = "triple" -> Selection("T", score, score * 3)
      [] OTHER -> Selection("", score, score)

\* the selection handleClick makes for the element clicked
clickSelection(score) ==
    IF score = 50 THEN Selection("", 50, 50) ELSE Selection("", score, score)

\* what the board hands to a resolver: a drag ends on a sector slid out
\* (double) or in (triple) or on the bullseye slid out (25), or a click
UISelections ==
    {getActiveSelection(score, mode) :
        score \in SectorNumbers, mode \in {"double", "triple"}}
      \cup {getActiveSelection(50, "outerBull")}
      \cup {clickSelection(score) : score \in SectorNumbers \cup {50}}

\* getTargetCoordinates(selection); Undefined is its null
getTargetCoordinates(selection) ==
    IF selection.value = 50
    THEN Some([r |-> TARGET_RADII.BULL_50, angle |-> 0])
    ELSE IF selection.value = 25 \/ selection.text = [prefix |-> "", number |-> 25]
    THEN Some([r |-> TARGET_RADII.BULL_25, angle |-> 0])
    ELSE LET isTriple == selection.text.prefix = "T"
             isDouble == selection.text.prefix = "D"
             sectorNumber == IF isTriple \/ isDouble THEN selection.text.number
                             ELSE IF selection.text.number # 0
                             THEN selection.text.number ELSE selection.value
             sectorIndex == indexOf(sectorNumber)
         IN IF sectorIndex = -1 THEN Undefined
            ELSE Some([r |-> IF isTriple THEN TARGET_RADII.TRIPLE
                             ELSE IF isDouble THEN TARGET_RADII.DOUBLE
                             ELSE TARGET_RADII.SINGLE,
                       angle |-> sectorIndex * SECTOR_ANGLE + SECTOR_ANGLE \div 2])

\* the % of JavaScript: the result has the sign of the dividend
jsRem(a, b) == IF a >= 0 THEN a % b ELSE -((-a) % b)

\* ((angle % 360) + 360) % 360
normalize(angle) == jsRem(jsRem(angle, FullTurn) + FullTurn, FullTurn)

\* the ring test that takes the triple ring for the double ring
ringAt_swapsRings(r, sector) ==
    IF r <= RING_BOUNDARIES.BULL_50
    THEN [text |-> [prefix |-> "", number |-> 50], value |-> 50, isDouble |-> TRUE]
    ELSE IF r <= RING_BOUNDARIES.BULL_25
    THEN [text |-> [prefix |-> "", number |-> 25], value |-> 25, isDouble |-> FALSE]
    ELSE IF r <= RING_BOUNDARIES.INNER_SINGLE
    THEN [text |-> [prefix |-> "", number |-> sector], value |-> sector,
          isDouble |-> FALSE]
    ELSE IF r <= RING_BOUNDARIES.TRIPLE
    THEN [text |-> [prefix |-> "D", number |-> sector], value |-> sector * 2,
          isDouble |-> TRUE]
    ELSE IF r <= RING_BOUNDARIES.OUTER_SINGLE
    THEN [text |-> [prefix |-> "", number |-> sector], value |-> sector,
          isDouble |-> FALSE]
    ELSE IF r <= RING_BOUNDARIES.DOUBLE
    THEN [text |-> [prefix |-> "T", number |-> sector], value |-> sector * 3,
          isDouble |-> FALSE]
    ELSE [text |-> [prefix |-> "", number |-> 0], value |-> 0, isDouble |-> FALSE]

\* the ring test whose first comparisons are strict
ringAt_strictBull(r, sector) ==
    IF r < RING_BOUNDARIES.BULL_50
    THEN [text |-> [prefix |-> "", number |-> 50], value |-> 50, isDouble |-> TRUE]
    ELSE IF r < RING_BOUNDARIES.BULL_25
    THEN [text |-> [prefix |-> "", number |-> 25], value |-> 25, isDouble |-> FALSE]
    ELSE IF r <= RING_BOUNDARIES.INNER_SINGLE
    THEN [text |-> [prefix |-> "", number |-> sector], value |-> sector,
          isDouble |-> FALSE]
    ELSE IF r <= RING_BOUNDARIES.TRIPLE
    THEN [text |-> [prefix |-> "T", number |-> sector], value |-> sector * 3,
          isDouble |-> FALSE]
    ELSE IF r <= RING_BOUNDARIES.OUTER_SINGLE
    THEN [text |-> [prefix |-> "", number |-> sector], value |-> sector,
          isDouble |-> FALSE]
    ELSE IF r <= RING_BOUNDARIES.DOUBLE
    THEN [text |-> [prefix |-> "D", number |-> sector], value |-> sector * 2,
          isDouble |-> TRUE]
    ELSE [text |-> [prefix |-> "", number |-> 0], value |-> 0, isDouble |-> FALSE]

\* the if-chain of getHitFromCoordinates over the clamped radius
ringAt(r, sector) ==
    IF r <= RING_BOUNDARIES.BULL_50
    THEN [text |-> [prefix |-> "", number |-> 50], value |-> 50, isDouble |-> TRUE]
    ELSE IF r <= RING_BOUNDARIES.BULL_25
    THEN [text |-> [prefix |-> "", number |-> 25], value |-> 25, isDouble |-> FALSE]
    ELSE IF r <= RING_BOUNDARIES.INNER_SINGLE
    THEN [text |-> [prefix |-> "", number |-> sector], value |-> sector,
          isDouble |-> FALSE]
    ELSE IF r <= RING_BOUNDARIES.TRIPLE
    THEN [text |-> [prefix |-> "T", number |-> sector], value |-> sector * 3,
          isDouble |-> FALSE]
    ELSE IF r <= RING_BOUNDARIES.OUTER_SINGLE
    THEN [text |-> [prefix |-> "", number |-> sector], value |-> sector,
          isDouble |-> FALSE]
    ELSE IF r <= RING_BOUNDARIES.DOUBLE
    THEN [text |-> [prefix |-> "D", number |-> sector], value |-> sector * 2,
          isDouble |-> TRUE]
    ELSE [text |-> [prefix |-> "", number |-> 0], value |-> 0, isDouble |-> FALSE]

\* getHitFromCoordinates(r, angle): { text, value, isDouble, sector }
getHitFromCoordinates(r, angle) ==
    LET clamped == IF r > 0 THEN r ELSE 0
        sectorIndex == normalize(angle) \div SECTOR_ANGLE
        sector == sectors[jsRem(sectorIndex, Len(sectors)) + 1]
        hit == ringAt(clamped, sector)
    IN [text |-> hit.text, value |-> hit.value, isDouble |-> hit.isDouble,
        sector |-> sector]

\* gaussianRandom(mean, stdDev): z is the Box-Muller value in tenths, made
\* of two Math.random() calls; none is made when stdDev is 0
gaussianRandom(mean, stdDev, z) ==
    IF stdDev = 0 THEN [value |-> mean, draws |-> 0]
    ELSE [value |-> mean + (z * stdDev) \div 10, draws |-> 2]

\* applyGaussianVariance(r, angle, rStdDev, angleStdDev): the settings are
\* in hundredths (0..100 for 0..1), zs = <<z of r, z of angle>>
applyGaussianVariance(r, angle, rStdDev, angleStdDev, zs) ==
    LET rStdDevActual == rStdDev * 1000
        angleStdDevActual == angleStdDev * 360
        newR == gaussianRandom(r, rStdDevActual, zs[1])
        newAngle == gaussianRandom(angle, angleStdDevActual, zs[2])
    IN [r |-> IF newR.value > 0 THEN newR.value ELSE 0,
        angle |-> newAngle.value,
        draws |-> newR.draws + newAngle.draws]

\* the resolver without the test for zero settings, over a gaussianRandom
\* without its test for a zero stdDev: both values are always drawn
justThrowApplyMissChance_alwaysDraws(selection, settings, zs) ==
    LET targetCoords == getTargetCoordinates(selection)
    IN IF targetCoords = Undefined
       THEN [actual |-> selection, wasMiss |-> FALSE, draws |-> 0]
       ELSE LET actualCoords == applyGaussianVariance(
                                    targetCoords[1].r, targetCoords[1].angle,
                                    settings.rStdDev, settings.angleStdDev, zs)
                hitResult == getHitFromCoordinates(actualCoords.r, actualCoords.angle)
                actual == [text |-> hitResult.text, value |-> hitResult.value]
            IN [actual |-> actual,
                wasMiss |-> actual.text # selection.text,
                draws |-> 4]

\* applyMissChance(selection) of the Just Throw game
justThrowApplyMissChance(selection, settings, zs) ==
    IF settings.rStdDev = 0 /\ settings.angleStdDev = 0
    THEN [actual |-> selection, wasMiss |-> FALSE, draws |-> 0]
    ELSE LET targetCoords == getTargetCoordinates(selection)
         IN IF targetCoords = Undefined
            THEN [actual |-> selection, wasMiss |-> FALSE, draws |-> 0]
            ELSE LET actualCoords == applyGaussianVariance(
                                         targetCoords[1].r, targetCoords[1].angle,
                                         settings.rStdDev, settings.angleStdDev, zs)
                     hitResult == getHitFromCoordinates(actualCoords.r,
                                                        actualCoords.angle)
                     actual == [text |-> hitResult.text, value |-> hitResult.value]
                 IN [actual |-> actual,
                     wasMiss |-> actual.text # selection.text,
                     draws |-> actualCoords.draws]

(***************************************************************************)
(* BoardSpec: throws made on the board.  A selection of the board goes     *)
(* through the discrete resolver of the practice game (src/game.js) or     *)
(* through the continuous resolver of the Just Throw game                  *)
(* (src/unnamed/part_007), or a point of the plane is classified by        *)
(* getHitFromCoordinates; last holds the latest call: its arguments and    *)
(* what it returned.  Math.random() is a hundredth for the rolls of the    *)
(* discrete resolver; a Gaussian value is a number of tenths of the        *)
(* standard deviation.                                                     *)
(***************************************************************************)
\* accuracy settings in percent, as updateSettings leaves them
AccuracyInputs == {0, 50, 100}

\* the sector roll and the ring roll, about the accuracy of 50
RollInputs == {49, 50}

\* the second draw: left or right neighbour, bull 50 or not after a missed
\* 25, the random sector after a missed 50
ChoiceInputs == {0, 14, 15, 49, 50, 95}

\* the third draw: the ring roll, or the random sector after a missed 25
ThirdInputs == {0, 49, 50, 95}

\* rStdDev and angleStdDev in hundredths, and Gaussian values in tenths
StdDevInputs == {0, 10}
GaussInputs == {-30, -10, 0, 10, 30}

\* radii about every ring boundary, below the centre and off the board
RadiusInputs ==
    {-5000, 0, 140, 141, 890, 891, 33890, 33891, 39590, 39591, 90790, 90791,
     100000, 100001, 150000}

\* angles about the sector borders, below 0 and past a full turn
AngleInputs ==
    {-72900, -36000, -900, -1, 0, 900, 1799, 1800, 17100, 35999, 36000, 36900,
     74700}

\* the throws and points BoardSpec starts from: a selection with the
\* settings and the values its resolver will draw, or a point of the plane
DiscreteAims ==
    {[op |-> "aim", resolver |-> "discrete", original |-> selection,
      settings |-> [defaultSettings EXCEPT !.ringAccuracy = ringAccuracy,
                                           !.sectorAccuracy = sectorAccuracy],
      rnd |-> <<r1, r2, r3>>] :
        selection \in UISelections,
        ringAccuracy \in AccuracyInputs, sectorAccuracy \in AccuracyInputs,
        r1 \in RollInputs, r2 \in ChoiceInputs, r3 \in ThirdInputs}

ContinuousAims ==
    {[op |-> "aim", resolver |-> "continuous", original |-> selection,
      settings |-> [rStdDev |-> rStdDev, angleStdDev |-> angleStdDev],
      zs |-> <<zr, za>>] :
        selection \in UISelections,
        rStdDev \in StdDevInputs, angleStdDev \in StdDevInputs,
        zr \in GaussInputs, za \in GaussInputs}

Landings ==
    {[op |-> "aim", resolver |-> "none", r |-> r, angle |-> angle] :
        r \in RadiusInputs, angle \in AngleInputs}

BoardInit ==
    /\ last \in DiscreteAims \cup ContinuousAims \cup Landings
    /\ gameState = initialGameState
    /\ currentScreen = "board"
    /\ budget = 0
    /\ practice = practiceIdle
    /\ room = roomIdle

\* handleThrow of the practice game resolves the selection
DiscreteThrow ==
    /\ last.op = "aim"
    /\ last.resolver = "discrete"
    /\ last' = [op |-> "applyMissChance",
                original |-> last.original,
                settings |-> last.settings,
                result |-> applyMissChance(last.original, last.settings, last.rnd)]
    /\ UNCHANGED <<gameState, currentScreen, budget, practice, room>>

\* handleThrow of the Just Throw game resolves the selection
ContinuousThrow ==
    /\ last.op = "aim"
    /\ last.resolver = "continuous"
    /\ last' = [op |-> "justThrowApplyMissChance",
                original |-> last.original,
                settings |-> last.settings,
                result |-> justThrowApplyMissChance(last.original, last.settings,
                                                    last.zs)]
    /\ UNCHANGED <<gameState, currentScreen, budget, practice, room>>

\* the dart lands at (r, angle)
Classify ==
    /\ last.op = "aim"
    /\ last.resolver = "none"
    /\ last' = [op |-> "getHitFromCoordinates",
                r |-> last.r,
                angle |-> last.angle,
                result |-> getHitFromCoordinates(last.r, last.angle)]
    /\ UNCHANGED <<gameState, currentScreen, budget, practice, room>>

BoardNext == DiscreteThrow \/ ContinuousThrow \/ Classify

BoardSpec == BoardInit /\ [][BoardNext]_vars

(***************************************************************************)
(* JustThrowSpec: a session of the Just Throw game (src/unnamed/part_007). *)
(* practice holds the module's state: the settings, throwHistory and       *)
(* totalScore.  The board throws and the session is reset.  A record of    *)
(* the history is its text, value and wasMiss (the timestamp and the copy  *)
(* of the intended throw are left out).                                    *)
(***************************************************************************)
MAX_HISTORY == 50

\* most throws of one session
MaxSessionThrows == 52

\* most throws of one session that are not the plain one (a single 20 that
\* lands where it is aimed)
MaxOtherThrows == 1

\* the module's state at load: no throw made, the settings as loaded
justThrowIdle(settings) ==
    [settings |-> settings,
     throwHistory |-> <<>>,
     totalScore |-> 0,
     throws |-> 0,
     others |-> 0]

\* getThrowCount()
getThrowCount(s) == Len(s.throwHistory)

\* getTotalScore()
getTotalScore(s) == s.totalScore

\* getAveragePerThrow(): totalScore / throwHistory.length as a fraction
getAveragePerThrow(s) ==
    IF Len(s.throwHistory) = 0 THEN [num |-> 0, den |-> 1]
    ELSE [num |-> s.totalScore, den |-> Len(s.throwHistory)]

\* resetSession()
resetSession(s) == [s EXCEPT !.throwHistory = <<>>, !.totalScore = 0]

\* handleThrow(selection) of the Just Throw game, zs the Gaussian values
justThrowHandleThrow(s, selection, zs) ==
    LET missResult == justThrowApplyMissChance(selection, s.settings, zs)
        throwRecord == [text |-> missResult.actual.text,
                        value |-> missResult.actual.value,
                        wasMiss |-> missResult.wasMiss]
        unshifted == <<throwRecord>> \o s.throwHistory
    IN [s EXCEPT
          !.throwHistory = IF Len(unshifted) > MAX_HISTORY
                           THEN SubSeq(unshifted, 1, Len(unshifted) - 1)
                           ELSE unshifted,
          !.totalScore = @ + missResult.actual.value]

\* what the player aims at, and the Gaussian values of a throw
JustThrowSelections == {single(20), triple(20)}
JustThrowGauss == {<<0, 0>>, <<30, 0>>}

JustThrowInit ==
    /\ \E stdDev \in StdDevInputs :
          practice = justThrowIdle([rStdDev |-> stdDev, angleStdDev |-> stdDev])
    /\ gameState = initialGameState
    /\ currentScreen = "throw"
    /\ last = [op |-> "init", result |-> Result(TRUE, "init")]
    /\ budget = 0
    /\ room = roomIdle

JustThrow(op, s) ==
    /\ practice' = s
    /\ last' = [op |-> op, result |-> Result(TRUE, op)]
    /\ UNCHANGED <<gameState, currentScreen, budget, room>>

\* processThrow(selection) of the Just Throw page
ProcessThrow(selection, zs) ==
    /\ practice.throws < MaxSessionThrows
    /\ LET plain == selection = single(20) /\ zs = <<0, 0>>
       IN /\ plain \/ practice.others < MaxOtherThrows
          /\ JustThrow("handleThrow",
                       [justThrowHandleThrow(practice, selection, zs) EXCEPT
                          !.throws = @ + 1,
                          !.others = IF plain THEN @ ELSE @ + 1])

\* the reset button: a new session begins
ResetSessionClick ==
    /\ practice.throwHistory # <<>>
    /\ JustThrow("resetSession",
                 [resetSession(practice) EXCEPT !.throws = 0, !.others = 0])

JustThrowNext ==
    \/ \E selection \in JustThrowSelections, zs \in JustThrowGauss :
          ProcessThrow(selection, zs)
    \/ ResetSessionClick

JustThrowSpec == JustThrowInit /\ [][JustThrowNext]_vars

(***************************************************************************)
(* Vocabulary of the properties.                                           *)
(***************************************************************************)
\* addThrow goes past its two early returns
InProgress(gs) == gs.gameStarted /\ gs.winner = NoWinner /\ hasCurrentPlayer(gs)

\* candidateScore of a throw, as the specification defines it
candidateScore(gs, throw) ==
    gs.currentTurn.scoreAtStart - Sum(gs.currentTurn.throws) - throw.value

\* the busting condition of the double-out rule
BustCondition(c, throw) == c < 0 \/ c = 1 \/ (c = 0 /\ ~throw.isDouble)

\* the round a turn leaves in history when throw ends it
RoundOf(gs, throw, bust, scoreAfter) ==
    [round |-> Len(gs.players[cur(gs)].history) + 1,
     throws |-> Append(gs.currentTurn.throws, throw),
     bust |-> bust,
     scoreAfter |-> scoreAfter]

\* index of the player after the one on turn
NextIndex(gs) == (gs.currentPlayerIndex + 1) % Len(gs.players)

\* sum of the throw values of the non-busted rounds of a history
RECURSIVE Scored(_)
Scored(history) ==
    IF history = <<>> THEN 0
    ELSE LET n == Len(history)
         IN Scored(SubSeq(history, 1, n - 1))
              + (IF history[n].bust THEN 0 ELSE Sum(history[n].throws))

\* the last call was op and returned tag
Returned(op, tag) == last.op = op /\ last.result.tag = tag

(***************************************************************************)
(* C1.  Double-out bust rule.  In a game in progress with doubleOut on,    *)
(* addThrow returns bust exactly when candidateScore is < 0, or 1, or 0    *)
(* with a throw that is no double; then the player's score is unchanged    *)
(* and equal to scoreAtStart, a round {bust: true, scoreAfter:             *)
(* scoreAtStart} holding all throws of the turn, the busting one included, *)
(* is appended to that player's history and to nothing else, and the next  *)
(* player is on turn with no throws and scoreAtStart equal to their score. *)
(***************************************************************************)
C1_BustRule ==
    \A throw \in Throws :
        (InProgress(gameState) /\ gameState.doubleOut) =>
            LET gs == gameState
                r == addThrow(gs, throw)
                c == candidateScore(gs, throw)
                next == NextIndex(gs)
            IN /\ (r.result.tag = "bust") <=> BustCondition(c, throw)
               /\ BustCondition(c, throw) =>
                    /\ r.result.success
                    /\ gs.players[cur(gs)].score = gs.currentTurn.scoreAtStart
                    /\ r.state.players =
                         [gs.players EXCEPT ![cur(gs)].history =
                             Append(@, RoundOf(gs, throw, TRUE, gs.currentTurn.scoreAtStart))]
                    /\ r.state.currentPlayerIndex = next
                    /\ r.state.currentTurn =
                         [throws |-> <<>>, scoreAtStart |-> gs.players[next + 1].score]
                    /\ r.state.winner = NoWinner /\ r.state.gameStarted

\* Ann busted in a two-player game: her round is recorded as a bust at 121
\* and Bob is on turn at his 181
C1_Witness ==
    /\ Returned("addThrow", "bust")
    /\ Len(gameState.players) = 2
    /\ gameState.currentPlayerIndex = 1
    /\ gameState.currentTurn = [throws |-> <<>>, scoreAtStart |-> 181]
    /\ gameState.players[1].score = 121
    /\ gameState.players[1].history[2].bust

(***************************************************************************)
(* C2.  Win.  In a game in progress (either double-out setting), a double  *)
(* (double ring or bull 50) that brings candidateScore to 0 is recorded in *)
(* the turn, the player's score becomes 0, a round {bust: false,           *)
(* scoreAfter: 0} is appended, winner becomes that player and              *)
(* currentPlayerIndex stays.                                               *)
(***************************************************************************)
C2_Win ==
    \A throw \in Throws :
        (InProgress(gameState) /\ candidateScore(gameState, throw) = 0 /\ throw.isDouble) =>
            LET gs == gameState
                r == addThrow(gs, throw)
            IN /\ r.result.success /\ r.result.tag = "win"
               /\ r.state.currentTurn =
                    [gs.currentTurn EXCEPT !.throws = Append(@, throw)]
               /\ r.state.players =
                    [gs.players EXCEPT
                        ![cur(gs)].score = 0,
                        ![cur(gs)].history = Append(@, RoundOf(gs, throw, FALSE, 0))]
               /\ r.state.winner.ref = cur(gs)
               /\ r.state.winner.name = gs.players[cur(gs)].name
               /\ r.state.currentPlayerIndex = gs.currentPlayerIndex

\* a game won on bull 50
C2_Witness ==
    /\ Returned("addThrow", "win")
    /\ gameState.winner.ref = cur(gameState)
    /\ gameState.players[cur(gameState)].score = 0
    /\ gameState.currentTurn.throws[Len(gameState.currentTurn.throws)] = Bull50

(***************************************************************************)
(* C3.  addThrow while the game is not started, or while a winner is set,  *)
(* returns {success: false} and leaves the whole game state unchanged.     *)
(***************************************************************************)
C3_RejectedThrow ==
    \A throw \in Throws :
        (~gameState.gameStarted \/ gameState.winner # NoWinner) =>
            LET r == addThrow(gameState, throw)
            IN ~r.result.success /\ ~r.result.threw /\ r.state = gameState

\* a throw was entered on the game-play screen after the room reset the game
C3_Witness ==
    /\ last.op = "addThrow"
    /\ ~last.result.success
    /\ ~gameState.gameStarted

(***************************************************************************)
(* C4.  As claimed: in every reachable state each player's score equals    *)
(* startingScore minus the throw values of the non-busted rounds of that   *)
(* player's history.                                                       *)
(***************************************************************************)
C4_ScoreIsStartMinusScored_Original ==
    \A i \in DOMAIN gameState.players :
        gameState.players[i].score =
            gameState.startingScore - Scored(gameState.players[i].history)

(***************************************************************************)
(* C4 amended.  While a game is in progress (gameStarted), in every state  *)
(* the app reaches, each player's score equals startingScore minus the     *)
(* throw values of the non-busted rounds of that player's history.         *)
(***************************************************************************)
C4_ScoreIsStartMinusScored ==
    gameState.gameStarted => C4_ScoreIsStartMinusScored_Original

\* a started game in which a player has a scored round and a busted round
C4_Witness ==
    /\ gameState.gameStarted
    /\ \E i \in DOMAIN gameState.players :
          /\ Len(gameState.players[i].history) = 2
          /\ ~gameState.players[i].history[1].bust
          /\ gameState.players[i].history[2].bust

(***************************************************************************)
(* C5.  A throw that neither busts nor wins: as the 3rd throw of the turn  *)
(* it sets the player's score to candidateScore, appends a non-bust round  *)
(* with scoreAfter = candidateScore and puts the next player on turn with  *)
(* scoreAtStart equal to that player's score; as the 1st or 2nd throw it   *)
(* is only added to the turn.  And 301 double-out, T20 T20 T20 leaves      *)
(* player 1 at 121 with player 2 on turn.                                  *)
(***************************************************************************)
C5_PlainThrow ==
    /\ \A throw \in Throws :
        LET gs == gameState
            r == addThrow(gs, throw)
            c == candidateScore(gs, throw)
            n == Len(gs.currentTurn.throws)
        IN (/\ InProgress(gs)
            /\ c # 0
            /\ ~(gs.doubleOut /\ BustCondition(c, throw))) =>
              /\ n \in {0, 1, 2}
              /\ n = 2 =>
                   LET scored == [gs.players EXCEPT
                                     ![cur(gs)].score = c,
                                     ![cur(gs)].history =
                                         Append(@, RoundOf(gs, throw, FALSE, c))]
                   IN /\ r.state.players = scored
                      /\ r.state.currentPlayerIndex = NextIndex(gs)
                      /\ r.state.currentTurn =
                           [throws |-> <<>>,
                            scoreAtStart |-> scored[NextIndex(gs) + 1].score]
                      /\ r.result.tag = "turnComplete"
              /\ n < 2 =>
                   /\ r.state = [gs EXCEPT !.currentTurn.throws = Append(@, throw)]
                   /\ r.result.tag = "continue"
    /\ LET after == playAll(setUp(2, TRUE), <<T20, T20, T20>>)
       IN after.players[1].score = 121 /\ after.currentPlayerIndex = 1

\* Ann completed her second turn (121 - 60 - 21 - 21 = 19) and Bob is on turn
C5_Witness ==
    /\ Returned("addThrow", "turnComplete")
    /\ Len(gameState.players) = 2
    /\ gameState.currentPlayerIndex = 1
    /\ gameState.players[1].score = 19
    /\ gameState.players[1].history[2].scoreAfter = 19
    /\ gameState.currentTurn = [throws |-> <<>>, scoreAtStart |-> 181]

(***************************************************************************)
(* C6.  As claimed: in every reachable state in which undoThrow succeeds   *)
(* (mid-turn, at a turn boundary after a completed round, after a bust,    *)
(* after a win), undoThrow followed by addThrow of the throw it removed    *)
(* gives back the state before the undo.                                   *)
(***************************************************************************)
C6_UndoThenRedo ==
    LET u == undoThrow(gameState)
    IN u.result.success =>
         addThrow(u.state, u.result.removed[1]).state = gameState

\* the cases of C6 other than "after a win": undo then redo restores the
\* state whenever no winner is set in a started game
C6_UndoThenRedoWithoutWinner ==
    (gameState.gameStarted /\ gameState.winner = NoWinner) => C6_UndoThenRedo

(***************************************************************************)
(* C7.  undoThrow with an empty current turn, when the previous player     *)
(* (currentPlayerIndex - 1 modulo the player count) has at least one       *)
(* round: that player's last round is removed, their score becomes the     *)
(* scoreAfter of their new last round, or startingScore if none is left,   *)
(* currentPlayerIndex becomes that player, and currentTurn holds the       *)
(* removed round's throws without the last one, with scoreAtStart equal to *)
(* the restored score.                                                     *)
(***************************************************************************)
C7_UndoAcrossTurns ==
    LET gs == gameState
        n == Len(gs.players)
    IN (n > 0 /\ gs.currentTurn.throws = <<>>) =>
         LET prev == ((gs.currentPlayerIndex - 1) % n) + 1
         IN (prev \in DOMAIN gs.players /\ Len(gs.players[prev].history) >= 1) =>
              LET h == gs.players[prev].history
                  lastRound == h[Len(h)]
                  restored == IF Len(h) > 1 THEN h[Len(h) - 1].scoreAfter
                              ELSE gs.startingScore
                  r == undoThrow(gs)
              IN /\ r.result.success
                 /\ r.state.players =
                      [gs.players EXCEPT
                          ![prev].history = SubSeq(h, 1, Len(h) - 1),
                          ![prev].score = restored]
                 /\ r.state.currentPlayerIndex = prev - 1
                 /\ r.state.currentTurn =
                      [throws |-> SubSeq(lastRound.throws, 1, Len(lastRound.throws) - 1),
                       scoreAtStart |-> restored]

\* Ann's second round was taken back from Bob's empty turn: she is on turn
\* again at 121, the score after her first round, with two throws left
C7_Witness ==
    /\ Returned("undoThrow", "playerChanged")
    /\ Len(gameState.players) = 2
    /\ gameState.currentPlayerIndex = 0
    /\ Len(gameState.players[1].history) = 1
    /\ gameState.players[1].score = 121
    /\ gameState.currentTurn.scoreAtStart = 121
    /\ Len(gameState.currentTurn.throws) = 2

(***************************************************************************)
(* C8.  As claimed: undoThrow reports failure and changes nothing when the *)
(* current turn is empty and no prior player history exists; with at least *)
(* one throw in the current turn it removes only the most recent throw,    *)
(* without changing score, history or currentPlayerIndex.                  *)
(***************************************************************************)
C8_UndoFailureAndPop ==
    LET gs == gameState
        r == undoThrow(gs)
        n == Len(gs.currentTurn.throws)
    IN /\ (n = 0 /\ \A i \in DOMAIN gs.players : gs.players[i].history = <<>>) =>
            /\ ~r.result.threw
            /\ ~r.result.success
            /\ r.state = gs
       /\ n > 0 =>
            /\ r.result.success
            /\ r.state =
                 [gs EXCEPT !.currentTurn.throws = SubSeq(@, 1, n - 1)]

\* the part of C8 that the code keeps: with at least one player, or with
\* throws in the turn, undoThrow behaves as claimed
C8_UndoWithPlayers ==
    (gameState.players # <<>> \/ gameState.currentTurn.throws # <<>>) =>
        C8_UndoFailureAndPop

(***************************************************************************)
(* C9.  As claimed: while gameStarted is true, currentPlayerIndex is a     *)
(* valid index into a non-empty players array, after any sequence of       *)
(* addPlayer, removePlayer, movePlayer, startGame, addThrow, undoThrow,    *)
(* resetGame and applySyncedState.                                         *)
(***************************************************************************)
C9_CurrentPlayerValid ==
    gameState.gameStarted =>
        /\ gameState.players # <<>>
        /\ gameState.currentPlayerIndex \in 0 .. Len(gameState.players) - 1

(***************************************************************************)
(* C10.  As claimed: in every reachable state every history satisfies the  *)
(* chain: a non-bust round n has scoreAfter_n = scoreAfter_(n-1) minus the *)
(* sum of its throws, with scoreAfter_0 = startingScore, and a bust round  *)
(* carries the previous value forward.                                     *)
(***************************************************************************)
C10_HistoryChain_Original ==
    \A i \in DOMAIN gameState.players :
        LET h == gameState.players[i].history
        IN \A n \in DOMAIN h :
             LET before == IF n = 1 THEN gameState.startingScore
                           ELSE h[n - 1].scoreAfter
             IN h[n].scoreAfter =
                  IF h[n].bust THEN before ELSE before - Sum(h[n].throws)

(***************************************************************************)
(* C10 amended.  While a game is in progress (gameStarted), in every state *)
(* the app reaches, after undo included, every history satisfies the       *)
(* chain of C10.                                                           *)
(***************************************************************************)
C10_HistoryChain ==
    gameState.gameStarted => C10_HistoryChain_Original

\* after an undo across a turn boundary, a started game whose player keeps
\* a scored round
C10_Witness ==
    /\ Returned("undoThrow", "playerChanged")
    /\ gameState.gameStarted
    /\ \E i \in DOMAIN gameState.players :
          /\ Len(gameState.players[i].history) >= 1
          /\ ~gameState.players[i].history[1].bust

(***************************************************************************)
(* C11.  As claimed: in a 501 double-out game, when the player on turn has *)
(* exactly 2 remaining, any throw other than D1, a blank throw of value 0  *)
(* and bull 50 included, leaves the player's score at 2, records a busted  *)
(* round and rotates to the next player.                                   *)
(***************************************************************************)
AtTwo(gs) ==
    /\ InProgress(gs)
    /\ gs.startingScore = Mode501
    /\ gs.doubleOut
    /\ getActualCurrentScore(gs) = 2

C11_BustAtTwo_Original ==
    \A throw \in (Throws \cup CheckoutThrows) \ {D1} :
        (AtTwo(gameState) /\ gameState.currentTurn.scoreAtStart = 2) =>
            LET r == addThrow(gameState, throw)
                i == cur(gameState)
            IN /\ r.state.players[i].score = 2
               /\ r.state.players[i].history =
                    Append(gameState.players[i].history,
                           RoundOf(gameState, throw, TRUE, 2))
               /\ r.state.currentPlayerIndex = NextIndex(gameState)

(***************************************************************************)
(* C11 amended.  In a 501 double-out game, when the player on turn has     *)
(* exactly 2 remaining, any throw of value 1 or more other than D1 (bull   *)
(* 50 included) busts: the score stays at the turn's scoreAtStart (2 when  *)
(* the turn began at 2), a busted round is recorded and the next player is *)
(* on turn.  A blank throw of value 0 does not bust: 2 remain, and the     *)
(* turn goes on or, as the third dart, ends in a non-bust round with       *)
(* scoreAfter equal to the remaining 2.                                    *)
(***************************************************************************)
C11_BustAtTwo ==
    \A throw \in (Throws \cup CheckoutThrows) \ {D1} :
        AtTwo(gameState) =>
            LET gs == gameState
                r == addThrow(gs, throw)
                i == cur(gs)
            IN IF throw.value >= 1
               THEN /\ r.result.tag = "bust"
                    /\ r.state.players[i].score = gs.currentTurn.scoreAtStart
                    /\ r.state.players[i].history =
                         Append(gs.players[i].history,
                                RoundOf(gs, throw, TRUE, gs.currentTurn.scoreAtStart))
                    /\ r.state.currentPlayerIndex = NextIndex(gs)
               ELSE /\ r.result.tag # "bust"
                    /\ IF Len(gs.currentTurn.throws) = 2
                       THEN /\ r.state.players[i].score = 2
                            /\ r.state.players[i].history =
                                 Append(gs.players[i].history,
                                        RoundOf(gs, throw, FALSE, 2))
                            /\ r.state.currentPlayerIndex = NextIndex(gs)
                       ELSE /\ r.state = [gs EXCEPT !.currentTurn.throws = Append(@, throw)]
                            /\ getActualCurrentScore(r.state) = 2

\* Ann, at 2 in a 501 game, busted on a single 2: still at 2, Bob on turn
C11_Witness ==
    /\ Returned("addThrow", "bust")
    /\ gameState.startingScore = Mode501
    /\ gameState.players[1].score = 2
    /\ gameState.currentPlayerIndex = 1
    /\ LET h == gameState.players[1].history
       IN h[Len(h)].bust /\ h[Len(h)].throws = <<S2>>

\* the blank as third dart at 2 left: a scored round, no bust
C11_BlankCompletes ==
    /\ Returned("addThrow", "turnComplete")
    /\ gameState.startingScore = Mode501
    /\ LET h == gameState.players[1].history
       IN ~h[Len(h)].bust /\ h[Len(h)].scoreAfter = 2
            /\ h[Len(h)].throws = <<T20, Blank, Blank>>

(***************************************************************************)
(* C12.  Every change of the player on turn caused by addThrow (turn       *)
(* completion or bust) moves currentPlayerIndex from i to (i + 1) mod      *)
(* players.length, and any other accepted throw leaves it; so in a game of *)
(* n players with no undo each player gets a turn exactly once every n     *)
(* turns: the players before the one on turn have finished one turn more   *)
(* than the player on turn, all others as many.                            *)
(***************************************************************************)
C12_Rotation ==
    /\ \A throw \in Throws \cup CheckoutThrows :
         InProgress(gameState) =>
            LET r == addThrow(gameState, throw)
                i == gameState.currentPlayerIndex
            IN r.state.currentPlayerIndex =
                 IF r.result.tag \in {"bust", "turnComplete"}
                 THEN (i + 1) % Len(gameState.players)
                 ELSE i
    /\ InProgress(gameState) =>
         \A j \in DOMAIN gameState.players :
            Len(gameState.players[j].history) =
               Len(gameState.players[cur(gameState)].history)
                 + (IF j < cur(gameState) THEN 1 ELSE 0)

\* Bob, the last of two players, ended his turn and Ann is on turn again,
\* both with the same number of turns played
C12_Witness ==
    /\ last.op = "addThrow"
    /\ last.result.tag \in {"bust", "turnComplete"}
    /\ Len(gameState.players) = 2
    /\ gameState.currentPlayerIndex = 0
    /\ Len(gameState.players[2].history) = Len(gameState.players[1].history)
    /\ Len(gameState.players[2].history) >= 1

(***************************************************************************)
(* C13.  startGame with zero players returns false and changes nothing;    *)
(* with at least one player it returns true, sets every player's score to  *)
(* startingScore and history to empty, currentPlayerIndex to 0, winner to  *)
(* null, gameStarted to true and currentTurn to no throws with             *)
(* scoreAtStart = startingScore; names, order and settings stay.           *)
(***************************************************************************)
C13_StartGame ==
    LET gs == gameState
        r == startGame(gs)
        st == r.state
    IN IF Len(gs.players) = 0
       THEN ~r.result.success /\ st = gs
       ELSE /\ r.result.success
            /\ Len(st.players) = Len(gs.players)
            /\ \A i \in DOMAIN gs.players :
                  /\ st.players[i].name = gs.players[i].name
                  /\ st.players[i].score = gs.startingScore
                  /\ st.players[i].history = <<>>
            /\ st.currentPlayerIndex = 0
            /\ st.winner = NoWinner
            /\ st.gameStarted
            /\ st.currentTurn = [throws |-> <<>>, scoreAtStart |-> gs.startingScore]
            /\ st.startingScore = gs.startingScore
            /\ st.doubleOut = gs.doubleOut
            /\ st.mentalMathMode = gs.mentalMathMode

\* a 301 game was abandoned with "keep players", the mode set to 501 and a
\* new game started: both players are at 501 with no history
C13_Witness ==
    /\ Returned("startGame", "true")
    /\ gameState.startingScore = Mode501
    /\ Len(gameState.players) = 2
    /\ \A i \in DOMAIN gameState.players :
          gameState.players[i].score = Mode501 /\ gameState.players[i].history = <<>>
    /\ gameState.currentTurn = [throws |-> <<>>, scoreAtStart |-> Mode501]

(***************************************************************************)
(* C14.  On a single device, between operations while a game is in         *)
(* progress with no winner, the current turn holds 0, 1 or 2 throws, and   *)
(* every round stored in any player's history holds between 1 and 3        *)
(* throws.                                                                 *)
(***************************************************************************)
C14_TurnAndRoundSizes ==
    (gameState.gameStarted /\ gameState.winner = NoWinner) =>
        /\ Len(gameState.currentTurn.throws) \in {0, 1, 2}
        /\ \A i \in DOMAIN gameState.players :
              \A n \in DOMAIN gameState.players[i].history :
                 Len(gameState.players[i].history[n].throws) \in 1..3

\* a game in progress with one dart thrown, a two-dart round (a bust) and
\* a three-dart round in the histories
C14_Witness ==
    /\ gameState.gameStarted /\ gameState.winner = NoWinner
    /\ Len(gameState.currentTurn.throws) = 1
    /\ \E i \in DOMAIN gameState.players :
          \E n \in DOMAIN gameState.players[i].history :
             /\ Len(gameState.players[i].history[n].throws) = 2
             /\ gameState.players[i].history[n].bust
    /\ \E i \in DOMAIN gameState.players :
          \E n \in DOMAIN gameState.players[i].history :
             Len(gameState.players[i].history[n].throws) = 3

(***************************************************************************)
(* C15.  As claimed: in the practice game, a throw made while the round is *)
(* already resolved (status win or lose, before the next target is         *)
(* generated) or with 0 darts remaining is a no-op: currentTarget,         *)
(* remainingDarts (which stays within 0..3), gameStatus and the history    *)
(* list are all unchanged.                                                 *)
(***************************************************************************)
C15_ResolvedThrowIsNoOp ==
    /\ practice.remainingDarts \in 0..3
    /\ \A selection \in PracticeSelections, rnd \in [1..3 -> Randoms] :
         (practice.gameStatus \in {"win", "lose"} \/ practice.remainingDarts = 0) =>
            LET q == handleThrow(practice, selection, rnd)
            IN /\ q.currentTarget = practice.currentTarget
               /\ q.remainingDarts = practice.remainingDarts
               /\ q.gameStatus = practice.gameStatus
               /\ q.gameHistory = practice.gameHistory

(***************************************************************************)
(* C16.  In the practice game, a throw that brings the running target to   *)
(* exactly 0 yields status win if and only if the actual throw (after the  *)
(* miss model) is a double ring hit or bull 50, and lose otherwise; a      *)
(* throw that takes the target below 0 yields lose whatever the ring;      *)
(* using the third dart without reaching exactly 0 yields lose.            *)
(***************************************************************************)
C16_PracticeOutcome ==
    \A selection \in PracticeSelections, rnd \in [1..3 -> Randoms] :
        LET actual == applyMissChance(selection, practice.settings, rnd).actual
            left == practice.currentTarget - actual.value
            doubleOrBull == actual.text.prefix = "D" \/ actual = single(50)
            q == handleThrow(practice, selection, rnd)
        IN /\ q.currentTarget = left
           /\ left = 0 => q.gameStatus = IF doubleOrBull THEN "win" ELSE "lose"
           /\ left < 0 => q.gameStatus = "lose"
           /\ (left # 0 /\ practice.remainingDarts = 1) => q.gameStatus = "lose"
           /\ q.gameStatus = "win" => left = 0

\* a round won on a double that brought the target to exactly 0
C16_Witness ==
    /\ last.op = "handleThrow"
    /\ practice.gameStatus = "win"
    /\ practice.currentTarget = 0
    /\ practice.gameHistory # <<>> /\ practice.gameHistory[1].result = "W"
    /\ LET n == Len(practice.currentRoundThrows)
       IN practice.currentRoundThrows[n].text.prefix = "D"

(***************************************************************************)
(* C17.  generateTarget never returns a value of the no-checkout set       *)
(* {169,168,166,165,163,162,159} and always returns a value within         *)
(* [settings.min, settings.max], and it resets remainingDarts to 3,        *)
(* gameStatus to null and the round throw log to empty.                    *)
(***************************************************************************)
C17_GenerateTarget ==
    /\ \A k \in TargetRandoms :
         (canDraw(practice.settings) /\ accepts(practice.settings, k)) =>
            LET q == generateTarget(practice, k)
            IN /\ q.currentTarget \notin {169, 168, 166, 165, 163, 162, 159}
               /\ q.currentTarget >= practice.settings.min
               /\ q.currentTarget <= practice.settings.max
               /\ q.originalTarget = q.currentTarget
               /\ q.remainingDarts = 3
               /\ q.gameStatus = "null"
               /\ q.currentRoundThrows = <<>>
    /\ (last.op \in {"init", "generateTarget", "updateSettings", "loadSettings"}
          /\ ~practice.hung) =>
            /\ practice.currentTarget \in
                 (practice.settings.min .. practice.settings.max)
                    \ {169, 168, 166, 165, 163, 162, 159}
            /\ practice.remainingDarts = 3
            /\ practice.gameStatus = "null"
            /\ practice.currentRoundThrows = <<>>

\* after a resolved round the settings were saved as [160, 170]: the draws
\* 162, 165 and 168 are refused and the new round starts at 160
C17_Witness ==
    /\ last.op = "updateSettings"
    /\ practice.settings.min = 160 /\ practice.settings.max = 170
    /\ practice.currentTarget = 160
    /\ practice.gameHistory # <<>>
    /\ practice.remainingDarts = 3
    /\ practice.currentRoundThrows = <<>>

(***************************************************************************)
(* C18.  After any sequence of settings loads and updateSettings calls in  *)
(* the practice game, 2 <= settings.min <= settings.max <= 170: each of    *)
(* min and max is clamped to [2,170] and the two are swapped when          *)
(* min > max.                                                              *)
(***************************************************************************)
C18_SettingsRange ==
    /\ 2 <= practice.settings.min
    /\ practice.settings.min <= practice.settings.max
    /\ practice.settings.max <= 170
    /\ \A newSettings \in SettingInputs :
         LET lo == IF newSettings.min[1] < 2 THEN 2
                   ELSE IF newSettings.min[1] > 170 THEN 170 ELSE newSettings.min[1]
             hi == IF newSettings.max[1] < 2 THEN 2
                   ELSE IF newSettings.max[1] > 170 THEN 170 ELSE newSettings.max[1]
             u == updateSettings(practice.settings, newSettings)
         IN /\ u.min = (IF lo > hi THEN hi ELSE lo)
            /\ u.max = (IF lo > hi THEN lo ELSE hi)

\* min 160 and max 40 were saved, swapped to [40, 160], and loaded again
\* from the cookie by the next page load
C18_Witness ==
    /\ last.op = "loadSettings"
    /\ practice.settings.min = 40
    /\ practice.settings.max = 160
    /\ practice.cookie = saveSettings(practice.settings)

(***************************************************************************)
(* C19.  While a device is in the room (its socket is open: isInRoom()),   *)
(* every mutating call of the counter game that changes the state sends    *)
(* the relay the resulting state as the last message of the call; while    *)
(* the device is not in the room the call sends nothing.                   *)
(* The statement as first made, for every device that has created or       *)
(* joined a room, is C19_EveryChangeBroadcast_Original.                    *)
(***************************************************************************)
\* the call c changes the state of dev and its last message carries the result
SendsResult(dev, c) ==
    LET after == localCall(dev, c)
    IN /\ Len(after.up) > Len(dev.up)
       /\ after.up[Len(after.up)] = jsonCopy(after.gameState)

Held(d) == jsonCopy(room.devices[d].gameState)

\* the devices in the room hold the same state
Agree ==
    \A d, e \in Devices :
        isInRoom(room.devices[d]) /\ isInRoom(room.devices[e]) => Held(d) = Held(e)

\* the devices in the room hold the state the relay stores
MatchesStored ==
    \A d \in Devices :
        isInRoom(room.devices[d]) => room.party.gameState = Some(Held(d))

C20_EventuallyConsistent ==
    <>[](Agree /\ (room.party.gameState # Undefined => MatchesStored))

\* C20 where the relay has processed a state message: from some point on,
\* if the relay stores a state then every device in the room holds it
C20_ConsistentOnceStored ==
    <>[](room.party.gameState # Undefined => MatchesStored)

(***************************************************************************)
(* C21.  applySyncedState(s) with a state s that carries every field makes *)
(* players, currentPlayerIndex, startingScore, doubleOut, currentTurn,     *)
(* gameStarted and winner of the local state equal to those of s, and      *)
(* applying s a second time changes nothing.                               *)
(***************************************************************************)
\* the synced fields of gs are those of s
SameSynced(gs, s) ==
    /\ gs.players = s.players
    /\ gs.currentPlayerIndex = s.currentPlayerIndex
    /\ gs.startingScore = s.startingScore
    /\ gs.doubleOut = s.doubleOut
    /\ gs.currentTurn = s.currentTurn
    /\ gs.gameStarted = s.gameStarted
    /\ gs.winner = s.winner

C21_ApplyReplacesAndIsIdempotent ==
    \A s \in PeerStates :
        LET once == applySyncedState(gameState, s)
            twice == applySyncedState(once.state, s)
        IN /\ once.result.success
           /\ SameSynced(once.state, s)
           /\ twice.state = once.state

\* the state of a peer with no players was applied over a game with players
C21_Witness ==
    /\ last.op = "applySyncedState"
    /\ gameState.players = <<>>
    /\ \E s \in PeerStates : SameSynced(gameState, s)
    /\ budget < MaxThrows

(***************************************************************************)
(* C22.  A throw whose value is not the value its text parses to under the *)
(* canonical rule (T = sector x 3, D = sector x 2, bare = x 1, bulls 25    *)
(* and 50) is rejected: addThrow reports failure for it and leaves the     *)
(* state as it is.  C22_ResolverRejects states the same of the discrete    *)
(* resolver under handleThrow of the practice game.                        *)
(***************************************************************************)
\* the canonical value of the texts the counter game is fed here
parseText(text) ==
    CASE text = "T20" -> 60
      [] text = "T7" -> 21
      [] text = "D20" -> 40
      [] text = "D1" -> 2
      [] text = "50" -> 50
      [] text = "19" -> 19
      [] text = "2" -> 2
      [] text = "1" -> 1
      [] text = "0" -> 0

\* the canonical value of a selection's text
parseSelection(sel) ==
    CASE sel.text.prefix = "T" -> 3 * sel.text.number
      [] sel.text.prefix = "D" -> 2 * sel.text.number
      [] OTHER -> sel.text.number

\* throws whose value contradicts their text
MalformedThrows ==
    {[text |-> "T20", value |-> 5, isDouble |-> FALSE],
     [text |-> "D20", value |-> 20, isDouble |-> TRUE],
     [text |-> "1", value |-> 60, isDouble |-> FALSE]}

MalformedSelections == {Selection("T", 20, 5), Selection("D", 20, 20), Selection("", 1, 60)}

C22_MalformedRejected ==
    \A throw \in MalformedThrows :
        /\ throw.value # parseText(throw.text)
        /\ LET r == addThrow(gameState, throw)
           IN ~r.result.success /\ r.state = gameState

C22_ResolverRejects ==
    \A sel \in MalformedSelections : \A r1, r2, r3 \in Randoms :
        /\ sel.value # parseSelection(sel)
        /\ handleThrow(practice, sel, <<r1, r2, r3>>) = practice

(***************************************************************************)
(* Claims about the throws made on the board (BoardSpec)                   *)
(***************************************************************************)
\* the values a dart can score
CanonicalValues ==
    {0} \cup (1..20) \cup {2 * n : n \in 1..20} \cup {3 * n : n \in 1..20}
        \cup {25, 50}

\* the throws of the latest call: the selection the board made and the
\* throw the resolver or the classification returned
BoardThrows ==
    IF last.op = "aim"
    THEN IF last.resolver = "none" THEN {} ELSE {last.original}
    ELSE IF last.op = "getHitFromCoordinates"
         THEN {[text |-> last.result.text, value |-> last.result.value]}
         ELSE {last.original, last.result.actual}

\* C23: every throw the board selects and every throw a resolver or the
\* classification returns has the value its text parses to (T x3, D x2,
\* bare x1, 25, 50), and that value is 0, 1..20, a double or a triple of
\* 1..20, 25 or 50.
C23_ValueIsParsedText ==
    \A t \in BoardThrows :
        /\ t.value = parseSelection(t)
        /\ t.value \in CanonicalValues

\* the continuous resolver returned a dart that left the board
C23_Witness ==
    /\ last.op = "justThrowApplyMissChance"
    /\ last.result.wasMiss
    /\ last.result.actual.value = 0
    /\ last.original.text.prefix = "D"

\* the throws stored in the current turn and in the players' histories
StoredThrows(gs) ==
    {gs.currentTurn.throws[k] : k \in DOMAIN gs.currentTurn.throws}
      \cup UNION {UNION {{gs.players[i].history[j].throws[k] :
                            k \in DOMAIN gs.players[i].history[j].throws} :
                         j \in DOMAIN gs.players[i].history} :
                  i \in DOMAIN gs.players}

\* C23, for the throws the app stores (checked under Spec): each has the
\* value its text parses to.
C23_StoredThrows ==
    \A t \in StoredThrows(gameState) :
        t.value = parseText(t.text) /\ t.value \in CanonicalValues

C23_StoredWitness ==
    \E i \in DOMAIN gameState.players : Len(gameState.players[i].history) > 0

\* the latest call is the discrete resolver's
Discrete == last.op = "applyMissChance"

\* C24: with ringAccuracy 100 and sectorAccuracy 100 the discrete resolver
\* returns the intended throw, wasMiss false and missType null, for every
\* selection of the board, and makes no Math.random() call.
C24_FullAccuracyIsExact ==
    (Discrete /\ last.settings.ringAccuracy = 100
              /\ last.settings.sectorAccuracy = 100)
        => /\ last.result.actual = last.original
           /\ ~last.result.wasMiss
           /\ last.result.missType = "null"
           /\ last.result.draws = 0

\* a triple was resolved at full accuracy
C24_Witness ==
    /\ Discrete
    /\ last.settings.ringAccuracy = 100
    /\ last.settings.sectorAccuracy = 100
    /\ last.original.text.prefix = "T"
    /\ last.result.actual = last.original

\* the numbers around the board, clockwise from the top
BoardOrder == <<20, 1, 18, 4, 13, 6, 10, 15, 2, 17, 3, 19, 7, 16, 8, 11, 14, 9, 12, 5>>

\* a and b are next to each other on the board (5 and 20 are)
Adjacent(a, b) ==
    \E i \in DOMAIN BoardOrder :
        /\ BoardOrder[i] = a
        /\ \/ BoardOrder[(i % Len(BoardOrder)) + 1] = b
           \/ BoardOrder[((i + Len(BoardOrder) - 2) % Len(BoardOrder)) + 1] = b

\* the intended throw is a single, double or triple of a sector
RegularSector(selection) == selection.value \notin {25, 50}

\* C25: with sectorAccuracy 0 the discrete resolver turns every single,
\* double or triple of a sector, whatever the draws, into a throw on one of
\* the two sectors next to the intended one on the board: never the
\* intended sector, never one further away.
C25_DriftsToNeighbour ==
    (Discrete /\ last.settings.sectorAccuracy = 0 /\ RegularSector(last.original))
        => /\ last.result.actual.text.number # last.original.text.number
           /\ Adjacent(last.original.text.number, last.result.actual.text.number)

\* a 5 drifted over the top of the board to 20
C25_Witness ==
    /\ Discrete
    /\ last.settings.sectorAccuracy = 0
    /\ last.original.text.number = 5
    /\ last.result.actual.text.number = 20

\* the returned throw is on another sector than the intended one
SectorDrifted == last.result.actual.text.number # last.original.text.number

\* a triple or double was intended and a single came back
RingDegraded ==
    /\ last.original.text.prefix \in {"T", "D"}
    /\ last.result.actual.text.prefix = ""

\* C26: for every selection, every accuracy setting and every draw the
\* discrete resolver reports wasMiss exactly when the text of the actual
\* throw differs from the intended one, missType null exactly when wasMiss
\* is false, and missType 'both' exactly when the sector drifted and the
\* triple or double came back as a single.
C26_MissReport ==
    Discrete =>
        /\ last.result.wasMiss <=> (last.result.actual.text # last.original.text)
        /\ (last.result.missType = "null") <=> ~last.result.wasMiss
        /\ (last.result.missType = "both") <=> (SectorDrifted /\ RingDegraded)
        /\ last.result.missType \in {"null", "sector", "ring", "both"}

\* a triple drifted to a neighbour and came back as a single
C26_Witness ==
    /\ Discrete
    /\ last.result.missType = "both"
    /\ last.original.text.prefix = "T"
    /\ last.result.wasMiss

\* a selection waits for the discrete resolver with the draws it will see
DiscreteAimed == last.op = "aim" /\ last.resolver = "discrete"

\* a single of one of the 20 sectors
SectorSingle(throw) ==
    /\ throw.text.prefix = ""
    /\ throw.text.number \in 1..20
    /\ throw.value = throw.text.number

\* what an intended bull 50 can come back as
Bull50Outcome(result) ==
    \/ result.actual = Selection("", 50, 50) /\ result.missType = "null"
    \/ result.actual = Selection("", 25, 25) /\ result.missType = "ring"
    \/ SectorSingle(result.actual) /\ result.missType = "sector"

\* what an intended 25 can come back as
Bull25Outcome(result) ==
    \/ result.actual = Selection("", 25, 25) /\ result.missType = "null"
    \/ result.actual = Selection("", 50, 50) /\ result.missType = "sector"
    \/ SectorSingle(result.actual) /\ result.missType = "sector"

\* C27: the discrete resolver turns an intended bull 50 into 50, into 25
\* (missType 'ring') or into a single of a sector (missType 'sector'), and a
\* missed sector roll ends the call before the ring roll; it turns an
\* intended 25 into 25, 50 or a single of a sector (missType 'sector')
\* and the outcome is the same for every ringAccuracy; missType 'both' is
\* never reported for a bull.
C27_BullHandling ==
    /\ (Discrete /\ last.original.value = 50) => Bull50Outcome(last.result)
    /\ (Discrete /\ last.original.value = 25) => Bull25Outcome(last.result)
    /\ (Discrete /\ last.original.value \in {25, 50})
           => last.result.missType # "both"
    /\ (DiscreteAimed /\ last.original.value = 50
          /\ last.settings.sectorAccuracy < 100
          /\ last.rnd[1] >= last.settings.sectorAccuracy)
           => \A ringAccuracy \in AccuracyInputs :
                  LET result == applyMissChance(
                                    last.original,
                                    [last.settings EXCEPT !.ringAccuracy = ringAccuracy],
                                    last.rnd)
                  IN /\ result.missType = "sector"
                     /\ SectorSingle(result.actual)
                     /\ result.draws = 2
    /\ (DiscreteAimed /\ last.original.value = 25)
           => \A ringAccuracy \in AccuracyInputs :
                  applyMissChance(last.original,
                                  [last.settings EXCEPT !.ringAccuracy = ringAccuracy],
                                  last.rnd)
                      = applyMissChance(last.original, last.settings, last.rnd)

\* an intended bull 50 missed its sector with ringAccuracy 0 and came back
\* as a single
C27_Witness ==
    /\ Discrete
    /\ last.original.value = 50
    /\ last.settings.ringAccuracy = 0
    /\ last.result.missType = "sector"
    /\ SectorSingle(last.result.actual)

\* the latest call is the continuous resolver's
Continuous == last.op = "justThrowApplyMissChance"

\* a selection of the board is at hand: intended, or already resolved
HasSelection == last.op \in {"applyMissChance", "justThrowApplyMissChance"}
                    \/ (last.op = "aim" /\ last.resolver # "none")

\* classifying the target point of a throw gives the throw back
RoundTrip(t) ==
    LET coords == getTargetCoordinates(t)
    IN /\ coords # Undefined
       /\ LET hit == getHitFromCoordinates(coords[1].r, coords[1].angle)
          IN hit.text = t.text /\ hit.value = t.value

\* C28: for the single, triple and double of each of the 20 sectors, for
\* 25 and for 50, getHitFromCoordinates applied to the point
\* getTargetCoordinates gives returns a throw with the same text and value.
C28_RoundTrip ==
    /\ HasSelection => RoundTrip(last.original)
    /\ \A t \in UISelections : RoundTrip(t)
    /\ \A n \in SectorNumbers :
           {single(n), double(n), triple(n), single(25), single(50)}
               \subseteq UISelections

\* the continuous resolver aimed a triple with noise on both axes and the
\* dart stayed on the triple
C28_Witness ==
    /\ Continuous
    /\ last.original.text.prefix = "T"
    /\ last.settings.rStdDev > 0
    /\ last.settings.angleStdDev > 0
    /\ last.result.draws = 4
    /\ ~last.result.wasMiss

\* C29: with rStdDev 0 and angleStdDev 0 the continuous resolver returns
\* the intended throw with wasMiss false, for the singles, doubles and
\* triples and for 25 and 50, and makes no Math.random() call.
C29_NoVarianceIsExact ==
    (Continuous /\ last.settings.rStdDev = 0 /\ last.settings.angleStdDev = 0)
        => /\ last.result.actual = last.original
           /\ ~last.result.wasMiss
           /\ last.result.draws = 0

\* bull 50 was resolved without variance
C29_Witness ==
    /\ Continuous
    /\ last.settings.rStdDev = 0
    /\ last.settings.angleStdDev = 0
    /\ last.original.value = 50
    /\ last.result.actual.value = 50

\* the throw at radius r of a sector by the ascending thresholds
ThrowAt(r, sector) ==
    IF r <= 140 THEN Selection("", 50, 50)
    ELSE IF r <= 890 THEN Selection("", 25, 25)
    ELSE IF r <= 33890 THEN Selection("", sector, sector)
    ELSE IF r <= 39590 THEN Selection("T", sector, 3 * sector)
    ELSE IF r <= 90790 THEN Selection("", sector, sector)
    ELSE IF r <= 100000 THEN Selection("D", sector, 2 * sector)
    ELSE Selection("", 0, 0)

\* the sector at an angle: the angle taken into [0, 360), 18 degrees a sector
SectorAt(angle) == BoardOrder[(((angle % 36000) \div 1800) % 20) + 1]

\* C30: getHitFromCoordinates(r, angle) returns bull 50 up to 0.14, 25 up
\* to 0.89, a single up to 33.89, a triple up to 39.59, a single up to
\* 90.79, a double up to 100 and text '0' with value 0 beyond; a negative
\* r counts as 0; the sector is sectors[floor(a / 18) mod 20] for the angle
\* a taken into [0, 360), so negative angles and angles of 360 and more
\* wrap around.
C30_Classification ==
    last.op = "getHitFromCoordinates" =>
        LET r == IF last.r < 0 THEN 0 ELSE last.r
            expected == ThrowAt(r, SectorAt(last.angle))
        IN /\ last.result.text = expected.text
           /\ last.result.value = expected.value
           /\ last.result.sector = SectorAt(last.angle)

\* a dart at a negative angle landed exactly on the outer edge of the triple
C30_Witness ==
    /\ last.op = "getHitFromCoordinates"
    /\ last.angle < 0
    /\ last.r = 39590
    /\ last.result.text.prefix = "T"

(***************************************************************************)
(* Claims about scores, winners and undo                                   *)
(***************************************************************************)
\* C31: in every state reached through addPlayer, startGame, addThrow and
\* undoThrow, with doubleOut on or off, every player's score is at least 0
\* and at most startingScore.
C31_ScoreInRange ==
    \A i \in DOMAIN gameState.players :
        /\ 0 <= gameState.players[i].score
        /\ gameState.players[i].score <= gameState.startingScore

\* C31, with doubleOut enabled (checked under PlaySpec): the bust rule keeps
\* every score within 0..startingScore.
C31_InRangeWithDoubleOut == gameState.doubleOut => C31_ScoreInRange

\* C32: whenever winner is set, after any addThrow and undoThrow calls, the
\* winning player's score is 0 and the last round of that player's history
\* is a round without bust whose scoreAfter is 0.
C32_WinnerHasWon ==
    (gameState.winner # NoWinner /\ gameState.winner.ref \in DOMAIN gameState.players)
        => LET player == gameState.players[gameState.winner.ref]
               h == Len(player.history)
           IN /\ player.score = 0
              /\ h > 0
              /\ ~player.history[h].bust
              /\ player.history[h].scoreAfter = 0

(***************************************************************************)
(* Claims about the room (SyncSpec)                                        *)
(***************************************************************************)
\* a state only seen in the middle of addThrow: the turn holds three throws,
\* or the throw that brings the score to 0, and no winner is set
HalfFinished(s) ==
    /\ s.gameStarted
    /\ s.winner = NoWinner
    /\ s.players # <<>>
    /\ \/ Len(s.currentTurn.throws) >= 3
       \/ /\ s.currentTurn.throws # <<>>
          /\ s.currentTurn.scoreAtStart = Sum(s.currentTurn.throws)

\* the state messages on their way to or from the relay
InFlight ==
    UNION {{room.devices[d].up[k] : k \in DOMAIN room.devices[d].up}
             \cup {room.devices[d].down[k] : k \in DOMAIN room.devices[d].down} :
           d \in Devices}

\* C33: every state handed to the state-change callback, and so broadcast,
\* is a state between operations: none shows three throws in the current
\* turn with no winner, none shows the winning throw in the current turn
\* with winner still null, and no device applies such a state.
C33_NoHalfFinishedBroadcast ==
    /\ \A s \in InFlight : ~HalfFinished(s)
    /\ \A d \in Devices : ~HalfFinished(room.devices[d].gameState)

\* C34: when only the host makes local changes, no message the host
\* receives from the relay (which echoes the host's own messages) changes
\* the host's game state: after it the state is still the one its latest
\* local change left.
C34_EchoKeepsLatest ==
    [][SocketOnMessage(Host) =>
           jsonCopy(room'.devices[Host].gameState)
               = jsonCopy(room.devices[Host].gameState)]_vars

\* C35: the connected flag of the sync module is true exactly when the
\* socket the latest connectToRoom created is open, and an event of a
\* socket that a later connectToRoom replaced or disconnect dropped never
\* invokes the callbacks registered since.
C35_FlagFollowsCurrentSocket ==
    /\ room.isConnected <=> (room.socket # 0 /\ room.sockets[room.socket] = "open")
    /\ room.event.invoked \in {0, room.event.socket}

\* the number of messages device d has sent that the relay has not handled
Sent(devices, d) == Len(devices[d].up)

C36_EventuallyQuiet == <>[](InFlight = {})

\* C37: canUndo() is true exactly when undoThrow() called in the same state
\* succeeds, in every state reached through addPlayer, removePlayer,
\* startGame, addThrow, undoThrow and resetGame.
C37_CanUndoMeansUndoWorks ==
    canUndo(gameState) <=> undoThrow(gameState).result.success

\* C38: generateTarget terminates for every settings pair that updateSettings
\* can produce (2 <= min <= max <= 170): the loop that rejects no-checkout
\* values always finds a target, so the page never hangs in it.
C38_GenerateTargetTerminates ==
    /\ ~practice.hung
    /\ canDraw(practice.settings)

\* C39: in the practice game a resolved round schedules exactly one
\* auto-advance and appends exactly one history record, and an auto-advance
\* that comes due never replaces a round started after it was scheduled: when
\* the timer fires, the round on the board is still the resolved one (its
\* status is win or lose), not a fresh round from a settings save or another
\* timer and not one in which a dart was thrown since.
C39_AutoAdvanceOnlyEndsItsRound ==
    [][/\ (\E k \in TargetRandoms : TimerFires(k)) =>
             /\ practice.gameStatus # "null"
             /\ practice.timers = 1
       /\ (last'.op = "handleThrow" /\ practice.gameStatus # "null") =>
             /\ practice'.timers = practice.timers
             /\ practice'.gameHistory = practice.gameHistory]_vars

\* The sum of the values of the throws held in a history
RECURSIVE HeldSum(_)
HeldSum(history) ==
    IF history = <<>> THEN 0 ELSE history[1].value + HeldSum(Tail(history))

\* C40: in free-throw mode, after any number of handleThrow calls, totalScore
\* is the sum of the values of the throws held in throwHistory (the 50 most
\* recent), so getAveragePerThrow() is the mean value of exactly the throws
\* that getThrowCount() counts.
C40_TotalIsSumOfHeldThrows ==
    /\ Len(practice.throwHistory) <= MAX_HISTORY
    /\ getTotalScore(practice) = HeldSum(practice.throwHistory)
    /\ getAveragePerThrow(practice).num * getThrowCount(practice)
          = HeldSum(practice.throwHistory) * getAveragePerThrow(practice).den

====
